---- MODULE Spec2Model ----
(***************************************************************************)
(* Image-derived dimension estimation and point-cloud synthesis of         *)
(* prompt2cad: frontend/src/utils/imageProcessing.js and                   *)
(* frontend/src/utils/camera.ts.                                           *)
(*                                                                         *)
(* Number representations                                                  *)
(*  - Typed arrays (Uint8ClampedArray, Uint8Array, Float32Array) and JS    *)
(*    arrays indexed from 0 are functions with domain 0..n-1.              *)
(*  - An edge intensity e = sqrt(gx^2+gy^2)/1448 is carried as the integer *)
(*    q = gx^2+gy^2 (so e = sqrt(q)/1448): the order of intensities and    *)
(*    every comparison with a threshold are exact.  The same holds for a   *)
(*    feature point's confidence, which is an edge intensity.              *)
(*  - Other real numbers are fixed point with FixedOne units per 1.0.      *)
(***************************************************************************)
EXTENDS Integers, Sequences, FiniteSets, TLC

VARIABLES
  pc,            \* position of the caller in the sequence of calls
  pass,          \* 1 on the first run over the input, 2 on the repeated run
  imageData,     \* the raster handed to the image functions
  options,       \* [threshold (tenths), edgeDetection, maxPoints]
  edges,         \* result of detectEdges
  masked,        \* result of removeBackground
  bounds,        \* result of getObjectBounds
  features,      \* result of extractFeaturePoints
  splatGrid,     \* the density grid before the smoothing pass
  densityGrid,   \* result of createDensityGrid
  surfacePoints, \* result of extractSurfacePoints
  firstPass,     \* the results of pass 1, kept for comparison with pass 2
  views,         \* the processed rasters handed to analyzeDimensions
  dimensions,    \* result of analyzeDimensions
  imageElements, \* the image elements handed to estimateDimensions
  estimate,      \* the latest call of estimateDimensions: its draws and its result
  prevEstimate,  \* the call of estimateDimensions before the latest
  images,        \* the image objects handed to generatePointCloud
  cloud,         \* result of generatePointCloud: the buffer of points
  randomTape,    \* the Math.random() draws of the latest generatePointCloud
  strategy,      \* the sampling strategy the latest generatePointCloud took
  scene,         \* the description of the raster of a mask-and-bounds run
  weightArray,   \* the array handed to normalizeArray and weightedRandomIndex
  sampled        \* the values the sampling helpers returned

imageVars == <<imageData, options, edges, masked, bounds, features>>
gridVars == <<splatGrid, densityGrid, surfacePoints>>
analyzeVars == <<views, dimensions>>
estimateVars == <<imageElements, estimate, prevEstimate>>
cloudVars == <<images, cloud, randomTape, strategy>>
functionVars == <<scene, weightArray, sampled>>
vars ==
  <<pc, pass, imageVars, gridVars, firstPass, analyzeVars, estimateVars, cloudVars,
    functionVars>>

\* A result that has not been computed.
None == [none |-> TRUE]

------------------------------------------------------------------------------
(* Arithmetic helpers *)

Min(S) == CHOOSE m \in S : \A n \in S : m <= n
Max(S) == CHOOSE m \in S : \A n \in S : m >= n
Abs(n) == IF n < 0 THEN 0 - n ELSE n

\* Fixed point: FixedOne units per 1.0.
FixedOne == 100 * 100

\* floor(sqrt(n)) by Newton's iteration.
RECURSIVE ISqrtIter(_, _)
ISqrtIter(n, r) ==
  LET r2 == (r + n \div r) \div 2
  IN IF r2 >= r THEN r ELSE ISqrtIter(n, r2)

ISqrt(n) == IF n < 2 THEN n ELSE ISqrtIter(n, n)

\* Math.sqrt of the integer n, in fixed point.
FixedSqrt(n) == ISqrt(n * FixedOne * FixedOne)

\* Math.exp(x) for a fixed-point x with 0 <= x <= 2: the Taylor series, summed
\* until the terms vanish.
RECURSIVE ExpSeries(_, _, _)
ExpSeries(x, term, k) ==
  IF term = 0 THEN 0
  ELSE term + ExpSeries(x, (term * x) \div (k * FixedOne), k + 1)

\* Math.exp(-x) for a fixed-point x with 0 <= x <= 2.
ExpNeg(x) == (FixedOne * FixedOne) \div ExpSeries(x, FixedOne, 1)

\* Math.round of the non-negative rational num/den: floor(num/den + 1/2).
MathRound(num, den) == (2 * num + den) \div (2 * den)

\* Array.prototype.sort with comparator (a, b) => b[key] - a[key]: a stable sort
\* into non-increasing order of the component named key.
RECURSIVE InsertDescending(_, _, _)
InsertDescending(sorted, e, key) ==
  IF sorted = <<>> THEN <<e>>
  ELSE IF e[key] > Head(sorted)[key]
       THEN <<e>> \o sorted
       ELSE <<Head(sorted)>> \o InsertDescending(Tail(sorted), e, key)

\* Insertion sort from the left: each element goes before the first strictly
\* smaller one, so equal elements keep their order.
RECURSIVE SortDescending(_, _)
SortDescending(s, key) ==
  IF s = <<>> THEN <<>>
  ELSE InsertDescending(SortDescending(SubSeq(s, 1, Len(s) - 1), key), s[Len(s)], key)

------------------------------------------------------------------------------
(* detectEdges: grayscale conversion and the 3x3 Sobel operator *)

\* The normalisation constant of the gradient magnitude.
EdgeNorm == 1448

\* grayscale[i/4] = Math.round(0.299 r + 0.587 g + 0.114 b), stored in a Uint8Array.
Luma(r, g, b) == MathRound(299 * r + 587 * g + 114 * b, 1000)

Grayscale(imageData_) ==
  [k \in 0..(imageData_.width * imageData_.height - 1) |->
     Luma(imageData_.data[4 * k], imageData_.data[4 * k + 1], imageData_.data[4 * k + 2])]

\* The mutant of SobelGx: the lower-left coefficient has the wrong sign.
SobelGx_signSlip(g, idx, width) ==
    (0 - 1) * g[idx - width - 1]
  + (0 - 2) * g[idx - 1]
  + 1 * g[idx + width - 1]
  + 1 * g[idx - width + 1]
  + 2 * g[idx + 1]
  + 1 * g[idx + width + 1]

\* Horizontal Sobel kernel.
SobelGx(g, idx, width) ==
    (0 - 1) * g[idx - width - 1]
  + (0 - 2) * g[idx - 1]
  + (0 - 1) * g[idx + width - 1]
  + 1 * g[idx - width + 1]
  + 2 * g[idx + 1]
  + 1 * g[idx + width + 1]

\* Vertical Sobel kernel.
SobelGy(g, idx, width) ==
    (0 - 1) * g[idx - width - 1]
  + (0 - 2) * g[idx - width]
  + (0 - 1) * g[idx - width + 1]
  + 1 * g[idx + width - 1]
  + 2 * g[idx + width]
  + 1 * g[idx + width + 1]

\* The mutant of detectEdges: the border ring is not skipped; the neighbours of
\* a border pixel are taken with their coordinates clamped into the image.
detectEdges_clampBorder(imageData_) ==
  LET width == imageData_.width
      height == imageData_.height
      grayscale == Grayscale(imageData_)
      Clamp(v, hi) == IF v < 0 THEN 0 ELSE IF v > hi THEN hi ELSE v
      G(x, y) == grayscale[Clamp(y, height - 1) * width + Clamp(x, width - 1)]
      Gx(x, y) == (G(x+1, y-1) + 2 * G(x+1, y) + G(x+1, y+1))
                  - (G(x-1, y-1) + 2 * G(x-1, y) + G(x-1, y+1))
      Gy(x, y) == (G(x-1, y+1) + 2 * G(x, y+1) + G(x+1, y+1))
                  - (G(x-1, y-1) + 2 * G(x, y-1) + G(x+1, y-1))
  IN [idx \in 0..(width * height - 1) |->
        LET x == idx % width
            y == idx \div width
        IN Gx(x, y) * Gx(x, y) + Gy(x, y) * Gy(x, y)]

\* The edge map: a Float32Array of width*height entries, zero-initialised; the
\* loops visit 1 <= y < height-1, 1 <= x < width-1 only.  Entry idx holds
\* q = gx^2 + gy^2, standing for the intensity sqrt(q) / EdgeNorm.
detectEdges(imageData_) ==
  LET width == imageData_.width
      height == imageData_.height
      grayscale == Grayscale(imageData_)
  IN [idx \in 0..(width * height - 1) |->
        LET x == idx % width
            y == idx \div width
        IN IF y >= 1 /\ y < height - 1 /\ x >= 1 /\ x < width - 1
           THEN LET gx == SobelGx(grayscale, idx, width)
                    gy == SobelGy(grayscale, idx, width)
                IN gx * gx + gy * gy
           ELSE 0]

\* The mutant of EdgeBelow that compares with <=.
EdgeBelow_orEqual(q, tenths) == 100 * q <= (EdgeNorm * tenths) * (EdgeNorm * tenths)

\* edges[i] < t and edges[i] > t for a threshold of t = tenths/10:
\* sqrt(q)/1448 < tenths/10  <=>  100 q < (1448 tenths)^2  (tenths >= 0).
EdgeBelow(q, tenths) == 100 * q < (EdgeNorm * tenths) * (EdgeNorm * tenths)
EdgeAbove(q, tenths) == 100 * q > (EdgeNorm * tenths) * (EdgeNorm * tenths)

------------------------------------------------------------------------------
(* removeBackground *)

\* colorDistance(color1, color2)^2: the squared Euclidean RGB distance.
colorDistanceSq(color1, color2) ==
    (color1[1] - color2[1]) * (color1[1] - color2[1])
  + (color1[2] - color2[2]) * (color1[2] - color2[2])
  + (color1[3] - color2[3]) * (color1[3] - color2[3])

\* distance < threshold * 255 for some background sample, threshold = tenths/10.
isColorSimilarToBackground(color, bgSamples, tenths) ==
  \E k \in DOMAIN bgSamples :
     100 * colorDistanceSq(color, bgSamples[k]) < (255 * tenths) * (255 * tenths)

\* The image is drawn to a fresh canvas and the canvas' ImageData is masked and
\* returned: the result is a new raster, the argument is not written.
\* opts = [threshold |-> tenths, edgeDetection |-> BOOLEAN].
removeBackground(image, opts) ==
  LET width == image.width
      height == image.height
      data == image.data
      edgeMap == detectEdges(image)
      cornerPixels == << 0,
                         (width - 1) * 4,
                         (height - 1) * width * 4,
                         ((height - 1) * width + width - 1) * 4 >>
      bgSamples == [k \in 1..4 |->
                      << data[cornerPixels[k]], data[cornerPixels[k] + 1],
                         data[cornerPixels[k] + 2] >>]
      Transparent(p) ==
        IF opts.edgeDetection
        THEN EdgeBelow(edgeMap[p], opts.threshold)
        ELSE isColorSimilarToBackground(
               << data[4 * p], data[4 * p + 1], data[4 * p + 2] >>,
               bgSamples, opts.threshold)
  IN [width |-> width, height |-> height,
      data |-> [i \in DOMAIN data |->
                  IF i % 4 = 3 /\ Transparent(i \div 4) THEN 0 ELSE data[i]]]

------------------------------------------------------------------------------
(* getObjectBounds *)

\* The mutant of getObjectBounds whose test is alpha >= 0: every pixel counts
\* as part of the object.
getObjectBounds_anyAlpha(imageData_) ==
  [x |-> 0, y |-> 0, width |-> imageData_.width - 1, height |-> imageData_.height - 1]

\* minX, minY start at width, height and maxX, maxY at 0; every pixel with
\* alpha > 0 lowers the minima and raises the maxima.
getObjectBounds(imageData_) ==
  LET width == imageData_.width
      height == imageData_.height
      data == imageData_.data
      opaque == {p \in 0..(width * height - 1) : data[4 * p + 3] > 0}
      minX == Min({width} \cup {p % width : p \in opaque})
      minY == Min({height} \cup {p \div width : p \in opaque})
      maxX == Max({0} \cup {p % width : p \in opaque})
      maxY == Max({0} \cup {p \div width : p \in opaque})
  IN [x |-> minX, y |-> minY, width |-> maxX - minX, height |-> maxY - minY]

------------------------------------------------------------------------------
(* extractFeaturePoints *)

\* The window of the local-maximum test and the border it excludes.
windowSize == 5

\* stride = Math.max(1, Math.floor(width * height / maxPoints / 10))
FeatureStride(width, height, maxPoints) ==
  Max({1, (width * height) \div (maxPoints * 10)})

\* The values taken by a loop "for (v = windowSize; v < limit; v += stride)".
StrideGrid(limit, stride) ==
  [i \in 1..(IF limit > windowSize THEN ((limit - windowSize - 1) \div stride) + 1 ELSE 0)
     |-> windowSize + (i - 1) * stride]

\* The mutant of IsLocalMaximum that an equal neighbour disqualifies too.
IsLocalMaximum_strict(edgeMap, x, y, width) ==
  LET idx == y * width + x
  IN /\ EdgeAbove(edgeMap[idx], 1)
     /\ \A dy \in (0 - windowSize)..windowSize : \A dx \in (0 - windowSize)..windowSize :
          LET neighborIdx == (y + dy) * width + (x + dx)
          IN (~(dx = 0 /\ dy = 0) /\ neighborIdx \in DOMAIN edgeMap)
               => ~(edgeMap[neighborIdx] >= edgeMap[idx])

\* edges[idx] > 0.1 and no neighbour in the window is strictly greater.
IsLocalMaximum(edgeMap, x, y, width) ==
  LET idx == y * width + x
  IN /\ EdgeAbove(edgeMap[idx], 1)
     /\ \A dy \in (0 - windowSize)..windowSize : \A dx \in (0 - windowSize)..windowSize :
          LET neighborIdx == (y + dy) * width + (x + dx)
          IN (~(dx = 0 /\ dy = 0) /\ neighborIdx \in DOMAIN edgeMap)
               => ~(edgeMap[neighborIdx] > edgeMap[idx])

\* The points pushed by the scan, in scan order (rows outer, columns inner):
\* <<x, y, edges[idx]>>, the pixel coordinates x and y in fixed point.
LocalMaxima(imageData_, maxPoints) ==
  LET width == imageData_.width
      height == imageData_.height
      edgeMap == detectEdges(imageData_)
      stride == FeatureStride(width, height, maxPoints)
      xs == StrideGrid(width - windowSize, stride)
      ys == StrideGrid(height - windowSize, stride)
      candidates == [k \in 1..(Len(xs) * Len(ys)) |->
                       << xs[((k - 1) % Len(xs)) + 1], ys[((k - 1) \div Len(xs)) + 1] >>]
      Keep(c) == IsLocalMaximum(edgeMap, c[1], c[2], width)
      kept == SelectSeq(candidates, Keep)
  IN [k \in 1..Len(kept) |->
        << kept[k][1] * FixedOne, kept[k][2] * FixedOne,
           edgeMap[kept[k][2] * width + kept[k][1]] >>]

\* The mutant of extractFeaturePoints: the points are returned in scan order,
\* the sort by confidence is missing.
extractFeaturePoints_unsorted(imageData_, maxPoints) ==
  LET points == LocalMaxima(imageData_, maxPoints)
  IN SubSeq(points, 1, Min({Len(points), maxPoints}))

\* The mutant of extractFeaturePoints: the points array outlives the call, the
\* points of the earlier call are still in it.
extractFeaturePoints_keepsPoints(imageData_, maxPoints) ==
  LET earlier == IF pass = 2 THEN firstPass.features ELSE <<>>
      points == SortDescending(earlier \o LocalMaxima(imageData_, maxPoints), 3)
  IN SubSeq(points, 1, Min({Len(points), maxPoints}))

\* points.sort((a, b) => b[2] - a[2]); return points.slice(0, maxPoints)
extractFeaturePoints(imageData_, maxPoints) ==
  LET points == SortDescending(LocalMaxima(imageData_, maxPoints), 3)
  IN SubSeq(points, 1, Min({Len(points), maxPoints}))

------------------------------------------------------------------------------
(* createDensityGrid, applyVolumetricConstraints, extractSurfacePoints *)

\* A feature point is <<x, y, q>>: x and y in fixed point, q the confidence as
\* an edge intensity (confidence = sqrt(q) / EdgeNorm).  The confidence as a
\* fixed-point number:
ConfidenceValue(q) == (ISqrt(100 * q) * FixedOne) \div (10 * EdgeNorm)

\* The q of a confidence given in thousandths whose q is a whole number
\* (0, 250, 500, 750, 1000).
ConfidenceQ(thousandths) ==
  ((EdgeNorm * thousandths) \div 1000) * ((EdgeNorm * thousandths) \div 1000)

\* const confidence = feature[2] || 1.0: a confidence of 0 is falsy.
FeatureConfidence(feature) ==
  IF feature[3] = 0 THEN FixedOne ELSE ConfidenceValue(feature[3])

\* Math.min(Math.floor(Math.min(Math.max(v, 0), 1) * gridSize), gridSize - 1)
GridIndex(v, gridSize) ==
  LET n == Min({Max({v, 0}), FixedOne})
  IN Min({(n * gridSize) \div FixedOne, gridSize - 1})

\* The influence radius of a feature, in cells.
spread == 2

\* Math.exp(-dist * 0.5) with dist = Math.sqrt(dx*dx + dy*dy + dz*dz), by the
\* squared distance d2 = dx*dx + dy*dy + dz*dz.
Falloff == [d2 \in 0..(3 * spread * spread) |-> ExpNeg(FixedSqrt(d2) \div 2)]

RECURSIVE SplatSum(_, _, _, _, _)
SplatSum(splats, k, x, y, dz) ==
  IF k = 0 THEN 0
  ELSE LET dx == x - splats[k].ix
           dy == y - splats[k].iy
       IN SplatSum(splats, k - 1, x, y, dz)
          + (IF Abs(dx) <= spread /\ Abs(dy) <= spread
             THEN (splats[k].confidence * Falloff[dx * dx + dy * dy + dz * dz])
                    \div FixedOne
             ELSE 0)

\* The mutant of SplatFeatures whose features are centred four layers above
\* the middle of the grid.
SplatFeatures_offCentre(gridSize, features_) ==
  LET splats == [k \in 1..Len(features_) |->
                   [ix |-> GridIndex(features_[k][1], gridSize),
                    iy |-> GridIndex(features_[k][2], gridSize),
                    confidence |-> FeatureConfidence(features_[k])]]
      mid == gridSize \div 2 + 4
  IN [x \in 0..(gridSize - 1) |-> [y \in 0..(gridSize - 1) |-> [z \in 0..(gridSize - 1) |->
        IF Abs(z - mid) <= spread
        THEN SplatSum(splats, Len(features_), x, y, z - mid)
        ELSE 0]]]

\* The grid after the forEach over the features and before the smoothing: cell
\* (x, y, z) has received weight = confidence * exp(-dist * 0.5) from every
\* feature whose (ix, iy, floor(gridSize / 2)) lies within spread of it on
\* each axis.
SplatFeatures(gridSize, features_) ==
  LET splats == [k \in 1..Len(features_) |->
                   [ix |-> GridIndex(features_[k][1], gridSize),
                    iy |-> GridIndex(features_[k][2], gridSize),
                    confidence |-> FeatureConfidence(features_[k])]]
      mid == gridSize \div 2
  IN [x \in 0..(gridSize - 1) |-> [y \in 0..(gridSize - 1) |-> [z \in 0..(gridSize - 1) |->
        IF Abs(z - mid) <= spread
        THEN SplatSum(splats, Len(features_), x, y, z - mid)
        ELSE 0]]]

\* sum of grid[x+dx][y+dy][z+dz] over the 27 cells of the 3x3x3 neighbourhood.
NeighbourhoodSum(grid, x, y, z) ==
  LET Line(a, b) == grid[a][b][z - 1] + grid[a][b][z] + grid[a][b][z + 1]
      Plane(a) == Line(a, y - 1) + Line(a, y) + Line(a, y + 1)
  IN Plane(x - 1) + Plane(x) + Plane(x + 1)

\* The mutant of applyVolumetricConstraints: the mean is subtracted (a
\* sharpening filter 1.3 v - 0.3 mean) instead of blended in.
applyVolumetricConstraints_sharpen(grid, gridSize) ==
  [x \in 0..(gridSize - 1) |-> [y \in 0..(gridSize - 1) |-> [z \in 0..(gridSize - 1) |->
     IF /\ x >= 1 /\ x < gridSize - 1
        /\ y >= 1 /\ y < gridSize - 1
        /\ z >= 1 /\ z < gridSize - 1
     THEN (13 * grid[x][y][z]) \div 10
          - (3 * (NeighbourhoodSum(grid, x, y, z) \div 27)) \div 10
     ELSE grid[x][y][z]]]]

\* The mutant of applyVolumetricConstraints whose mean is taken over the 26
\* neighbours, the cell itself left out.
applyVolumetricConstraints_excludesSelf(grid, gridSize) ==
  [x \in 0..(gridSize - 1) |-> [y \in 0..(gridSize - 1) |-> [z \in 0..(gridSize - 1) |->
     IF /\ x >= 1 /\ x < gridSize - 1
        /\ y >= 1 /\ y < gridSize - 1
        /\ z >= 1 /\ z < gridSize - 1
     THEN (7 * grid[x][y][z]) \div 10
          + (3 * ((NeighbourhoodSum(grid, x, y, z) - grid[x][y][z]) \div 26)) \div 10
     ELSE grid[x][y][z]]]]

\* newGrid[x][y][z] = 0.7 * grid[x][y][z] + 0.3 * (sum / count) for interior
\* cells, computed from the unsmoothed grid and copied back afterwards.
applyVolumetricConstraints(grid, gridSize) ==
  [x \in 0..(gridSize - 1) |-> [y \in 0..(gridSize - 1) |-> [z \in 0..(gridSize - 1) |->
     IF /\ x >= 1 /\ x < gridSize - 1
        /\ y >= 1 /\ y < gridSize - 1
        /\ z >= 1 /\ z < gridSize - 1
     THEN (7 * grid[x][y][z]) \div 10
          + (3 * (NeighbourhoodSum(grid, x, y, z) \div 27)) \div 10
     ELSE grid[x][y][z]]]]

\* The mutant of createDensityGrid that smooths the splatted grid twice.
createDensityGrid_twoPasses(gridSize, features_) ==
  CHOOSE grid \in {applyVolumetricConstraints(once, gridSize) :
                     once \in {applyVolumetricConstraints(splat, gridSize) :
                                 splat \in {SplatFeatures(gridSize, features_)}}} : TRUE

\* The splatted grid, smoothed in place and returned.  (The grid is bound by
\* a set constructor so that it is computed once, not once per cell read.)
createDensityGrid(gridSize, features_) ==
  CHOOSE grid \in {applyVolumetricConstraints(splat, gridSize) :
                     splat \in {SplatFeatures(gridSize, features_)}} : TRUE

\* currentDensity > 0.2 alone: the gradient test is left out.
IsSurfaceCell_anyGradient(grid, x, y, z) ==
  grid[x][y][z] > FixedOne \div 5

\* (index / gridSize - 0.5) * dimension, in fixed point (dimension in whole mm).
GridToObject(index, gridSize, dimension) ==
  ((index * FixedOne) \div gridSize - FixedOne \div 2) * dimension

\* currentDensity > 0.2 and gradientMagnitude > 0.05, where gradientMagnitude =
\* sqrt(gx^2 + gy^2 + gz^2) and gx = |grid[x+1][y][z] - grid[x-1][y][z]| / 2.
\* sqrt(gx^2+gy^2+gz^2) > 0.05  <=>  dx^2 + dy^2 + dz^2 > (FixedOne/10)^2 for the
\* undivided differences; a difference above FixedOne/10 decides it alone.
IsSurfaceCell(grid, x, y, z) ==
  LET cap == FixedOne \div 10 + 1
      dx == Min({Abs(grid[x + 1][y][z] - grid[x - 1][y][z]), cap})
      dy == Min({Abs(grid[x][y + 1][z] - grid[x][y - 1][z]), cap})
      dz == Min({Abs(grid[x][y][z + 1] - grid[x][y][z - 1]), cap})
  IN /\ grid[x][y][z] > FixedOne \div 5
     /\ dx * dx + dy * dy + dz * dz > (FixedOne \div 10) * (FixedOne \div 10)

\* The surface points in the order of the loops (x outer, y, z inner).
extractSurfacePoints(grid, gridSize, dimensions_) ==
  LET inner == gridSize - 2
      cells == [k \in 1..(IF inner > 0 THEN inner * inner * inner ELSE 0) |->
                  << ((k - 1) \div (inner * inner)) + 1,
                     (((k - 1) \div inner) % inner) + 1,
                     ((k - 1) % inner) + 1 >>]
      Keep(c) == IsSurfaceCell(grid, c[1], c[2], c[3])
      kept == SelectSeq(cells, Keep)
  IN [k \in 1..Len(kept) |->
        << GridToObject(kept[k][1], gridSize, dimensions_.width),
           GridToObject(kept[k][2], gridSize, dimensions_.height),
           GridToObject(kept[k][3], gridSize, dimensions_.depth) >>]

------------------------------------------------------------------------------
(* generatePointCloud and its sampling helpers *)

\* The number of points of a cloud and the resolution of its density grid.
pointCount == 5000
gridSize == 20

\* The mutant of PointsLength: one float per point is allocated instead of three.
PointsLength_perPoint == pointCount

\* new Float32Array(pointCount * 3): the length of the buffer returned.  Writes
\* past the end of a typed array are dropped, its length never changes.
PointsLength == pointCount * 3

\* The value bound once (a set constructor enumerates its elements).
Only(S) == CHOOSE v \in S : TRUE

\* The k-th value (from 0) of the stream of Math.random() draws of one call, in
\* hundredths.  The stream repeats the tape.
Draw(tape, k) == tape[(k % Len(tape)) + 1]

\* Math.exp(x) for a fixed-point x with -2 <= x <= 2.
Exp(x) == IF x >= 0 THEN ExpSeries(x, FixedOne, 1) ELSE ExpNeg(0 - x)

\* 1 / (1 + Math.exp(-x))
sigmoid(x) == (FixedOne * FixedOne) \div (FixedOne + Exp(0 - x))

\* arr.reduce((a, b) => a + b, 0) over the first n entries.
RECURSIVE ArraySum(_, _)
ArraySum(arr, n) == IF n = 0 THEN 0 ELSE ArraySum(arr, n - 1) + arr[n - 1]

\* v / sum in fixed point; numerator and denominator are scaled down together
\* when the product would leave the integer range.
RECURSIVE Ratio(_, _)
Ratio(v, sum) ==
  IF sum > 200000 THEN Ratio(v \div 10, sum \div 10) ELSE (v * FixedOne) \div sum

\* sum > 0 ? arr.map(v => v / sum) : arr.map(() => 0.1)
normalizeArray(arr) ==
  LET Divided(sum) ==
        IF sum > 0
        THEN [i \in DOMAIN arr |-> Ratio(arr[i], sum)]
        ELSE [i \in DOMAIN arr |-> FixedOne \div 10]
  IN Only({Divided(sum) : sum \in {ArraySum(arr, Cardinality(DOMAIN arr))}})

\* The loop of weightedRandomIndex: the first i with random < weights[0..i]
\* summed, weights.length - 1 when there is none.  scaled = 100 * random.
RECURSIVE FirstIndexAbove(_, _, _, _, _)
FirstIndexAbove(weights, n, i, weightSum, scaled) ==
  IF i = n THEN n - 1
  ELSE IF scaled < 100 * (weightSum + weights[i]) THEN i
       ELSE FirstIndexAbove(weights, n, i + 1, weightSum + weights[i], scaled)

\* The mutant of weightedRandomIndex that rounds random * length to the nearest
\* integer on the all-zero path.
weightedRandomIndex_rounds(weights, draw) ==
  LET n == Cardinality(DOMAIN weights)
      sum == ArraySum(weights, n)
  IN IF sum = 0 THEN (draw * n + 50) \div 100
     ELSE FirstIndexAbove(weights, n, 0, 0, draw * sum)

\* One draw is consumed on either path.
weightedRandomIndex(weights, draw) ==
  LET n == Cardinality(DOMAIN weights)
      sum == ArraySum(weights, n)
  IN IF sum = 0 THEN (draw * n) \div 100
     ELSE FirstIndexAbove(weights, n, 0, 0, draw * sum)

\* density[bin] += confidence over the features; a bin below 0 is no element of
\* the array and is not summed.
RECURSIVE BinDensity(_, _, _, _, _)
BinDensity(features_, k, axis, bins, bin) ==
  IF k = 0 THEN 0
  ELSE BinDensity(features_, k - 1, axis, bins, bin)
       + (IF Min({(features_[k][axis + 1] * bins) \div FixedOne, bins - 1}) = bin
          THEN FeatureConfidence(features_[k]) ELSE 0)

\* The histogram of the features along one axis, smoothed over a window of
\* +-2 bins, floored at 0.01 and normalised.
createFeatureDensity(features_, axis, bins, dimension) ==
  LET Window(i) == Max({0, i - 2})..Min({bins - 1, i + 2})
      WindowSum(density, i) ==
        ArraySum([j \in 0..(Cardinality(Window(i)) - 1) |-> density[Max({0, i - 2}) + j]],
                 Cardinality(Window(i)))
      Smoothed(density) ==
        [i \in 0..(bins - 1) |->
           Max({WindowSum(density, i) \div Cardinality(Window(i)), FixedOne \div 100})]
  IN Only({normalizeArray(smoothedDensity) :
             smoothedDensity \in
               {Smoothed(density) :
                  density \in {[b \in 0..(bins - 1) |->
                                  BinDensity(features_, Len(features_), axis, bins, b)]}}})

\* A bell curve over the bins: exp(-((i / (bins - 1) - 0.5) * 2)^2), normalised.
estimateZDensity(features_, dimensions_, bins) ==
  LET Bell(i) == LET t == (2 * i * FixedOne) \div (bins - 1) - FixedOne
                 IN ExpNeg((t * t) \div FixedOne)
  IN Only({normalizeArray(density) : density \in {[i \in 0..(bins - 1) |-> Bell(i)]}})

\* ((bin + random) / gridSize - 0.5) * dimension, random in hundredths.
BinToObject(bin, draw, gridSize_, dimension) ==
  (((bin * FixedOne + (draw * FixedOne) \div 100) \div gridSize_) - FixedOne \div 2) * dimension

\* The grid projected on each axis, each projection normalised.
AxisDensities(grid, gridSize_) ==
  LET cells == 0..(gridSize_ - 1)
      Line(f) == ArraySum([k \in cells |-> f[k]], gridSize_)
      xDensity == Only({[x \in cells |-> Line([y \in cells |-> Line(grid[x][y])])]})
      yDensity == Only({[y \in cells |-> Line([x \in cells |-> Line(grid[x][y])])]})
      zDensity == Only({[z \in cells |->
                           Line([x \in cells |-> Line([y \in cells |-> grid[x][y][z]])])]})
  IN Only({[x |-> nx, y |-> ny, z |-> nz] :
             nx \in {normalizeArray(xDensity)}, ny \in {normalizeArray(yDensity)},
             nz \in {normalizeArray(zDensity)}})

\* A bin drawn per axis by its normalised projection, and a uniform offset
\* inside the bin: six draws, from `first`.
SampleFromAxes(axes, gridSize_, dimensions_, tape, first) ==
  LET xBin == weightedRandomIndex(axes.x, Draw(tape, first))
      yBin == weightedRandomIndex(axes.y, Draw(tape, first + 1))
      zBin == weightedRandomIndex(axes.z, Draw(tape, first + 2))
  IN << BinToObject(xBin, Draw(tape, first + 3), gridSize_, dimensions_.width),
        BinToObject(yBin, Draw(tape, first + 4), gridSize_, dimensions_.height),
        BinToObject(zBin, Draw(tape, first + 5), gridSize_, dimensions_.depth) >>

sampleFromDensityGrid(grid, gridSize_, dimensions_, tape, first) ==
  Only({SampleFromAxes(axes, gridSize_, dimensions_, tape, first) :
          axes \in {AxisDensities(grid, gridSize_)}})

\* Math.sign
Sign(n) == IF n > 0 THEN 1 ELSE IF n < 0 THEN 0 - 1 ELSE 0

\* The mutant of pullPointToSurface that always pulls along x.
pullPointToSurface_alwaysX(point, dimensions_) ==
  << point[1] + (7 * (Sign(point[1]) * ((dimensions_.width * FixedOne) \div 2) - point[1])) \div 10,
     point[2], point[3] >>

\* The mutant of pullPointToSurface that moves the point outwards by 0.7 of the
\* half extent, however close to the face it already is.
pullPointToSurface_fixedStep(point, dimensions_) ==
  LET w == dimensions_.width
      h == dimensions_.height
      d == dimensions_.depth
      absXgeY == Abs(point[1]) * h >= Abs(point[2]) * w
      absXgeZ == Abs(point[1]) * d >= Abs(point[3]) * w
      absYgeX == Abs(point[2]) * w >= Abs(point[1]) * h
      absYgeZ == Abs(point[2]) * d >= Abs(point[3]) * h
      Pulled(v, dimension) ==
        v + (7 * Sign(v) * ((dimension * FixedOne) \div 2)) \div 10
  IN IF absXgeY /\ absXgeZ THEN << Pulled(point[1], w), point[2], point[3] >>
     ELSE IF absYgeX /\ absYgeZ THEN << point[1], Pulled(point[2], h), point[3] >>
     ELSE << point[1], point[2], Pulled(point[3], d) >>

\* The point moved 0.7 of the way to the face of the box on its dominant axis:
\* the axis with the largest |coordinate / half dimension|, x before y before z
\* on ties.  |px| / (w/2) >= |py| / (h/2) is compared as |px| * h >= |py| * w
\* (the dimensions are positive).
pullPointToSurface(point, dimensions_) ==
  LET w == dimensions_.width
      h == dimensions_.height
      d == dimensions_.depth
      absXgeY == Abs(point[1]) * h >= Abs(point[2]) * w
      absXgeZ == Abs(point[1]) * d >= Abs(point[3]) * w
      absYgeX == Abs(point[2]) * w >= Abs(point[1]) * h
      absYgeZ == Abs(point[2]) * d >= Abs(point[3]) * h
      Pulled(v, dimension) ==
        v + (7 * (Sign(v) * ((dimension * FixedOne) \div 2) - v)) \div 10
  IN IF absXgeY /\ absXgeZ THEN << Pulled(point[1], w), point[2], point[3] >>
     ELSE IF absYgeX /\ absYgeZ THEN << point[1], Pulled(point[2], h), point[3] >>
     ELSE << point[1], point[2], Pulled(point[3], d) >>

\* pullPointToSurface(points, index, dimensions) on the buffer: the three
\* entries from baseIdx = index * 3 are rewritten, no other entry is touched.
PullInBuffer(points_, index, dimensions_) ==
  LET baseIdx == index * 3
      pulled == pullPointToSurface(<< points_[baseIdx], points_[baseIdx + 1],
                                      points_[baseIdx + 2] >>, dimensions_)
  IN [k \in DOMAIN points_ |->
        IF k \in baseIdx..(baseIdx + 2) THEN pulled[k - baseIdx + 1] ELSE points_[k]]

\* The mutant of ClusterOffset with the comparison turned round: the tight
\* jitter on the draws up to 0.7.
ClusterOffset_tightBelow(draw) == IF draw <= 70 THEN 2 ELSE 10

\* cluster = Math.random() > 0.7; clusterOffset = cluster ? 0.2 : 1.0, in tenths.
ClusterOffset(draw) == IF draw > 70 THEN 2 ELSE 10

\* The body of the fallback loop for point i: eight draws, from 8 * i.
FallbackPoint(i, featureDensityX, featureDensityY, featureDensityZ, dimensions_, tape) ==
  LET D(k) == Draw(tape, 8 * i + k)
      surfaceDistribution == sigmoid((4 * D(0) * FixedOne) \div 100 - 2 * FixedOne)
      binX == weightedRandomIndex(featureDensityX, D(1))
      binY == weightedRandomIndex(featureDensityY, D(2))
      binZ == weightedRandomIndex(featureDensityZ, D(3))
      clusterOffset == ClusterOffset(D(4))
      Pos(bin, draw) == bin * FixedOne + (draw * clusterOffset * FixedOne) \div 1000
      ToObject(pos, dimension) == ((pos \div gridSize) - FixedOne \div 2) * dimension
      point == << ToObject(Pos(binX, D(5)), dimensions_.width),
                  ToObject(Pos(binY, D(6)), dimensions_.height),
                  ToObject(Pos(binZ, D(7)), dimensions_.depth) >>
  IN IF surfaceDistribution > (7 * FixedOne) \div 10
     THEN pullPointToSurface(point, dimensions_)
     ELSE point

\* The feature-guided strategy.  The stream of draws repeats the tape, so the
\* points repeat with the tape's length: one period is computed.
FallbackStrategy(allFeatures, dimensions_, tape) ==
  LET Period(dx, dy, dz) ==
        [j \in 0..(Len(tape) - 1) |-> FallbackPoint(j, dx, dy, dz, dimensions_, tape)]
      Buffer(period) ==
        [idx \in 0..(PointsLength - 1) |-> period[(idx \div 3) % Len(tape)][(idx % 3) + 1]]
  IN Only({Buffer(period) :
             period \in
               {Period(dx, dy, dz) :
                  dx \in {createFeatureDensity(allFeatures, 0, gridSize, dimensions_.width)},
                  dy \in {createFeatureDensity(allFeatures, 1, gridSize, dimensions_.height)},
                  dz \in {estimateZDensity(allFeatures, dimensions_, gridSize)}}})

\* The surface-biased strategy: surfacePointCount points drawn uniformly from
\* the surface points (one draw each), the others sampled from the grid (six
\* draws each).
SurfaceStrategy(densityGrid_, surfacePoints_, dimensions_, tape) ==
  LET surfacePointCount == Min({(pointCount * 8) \div 10, Len(surfacePoints_)})
      \* sampleFromDensityGrid projects the same grid in every call, and the
      \* draws of calls Len(tape) apart are the same.
      Period(axes) ==
        [j \in 0..(Len(tape) - 1) |->
           SampleFromAxes(axes, gridSize, dimensions_, tape, surfacePointCount + 6 * j)]
      Point(i, period) ==
        IF i < surfacePointCount
        THEN surfacePoints_[((Draw(tape, i) * Len(surfacePoints_)) \div 100) + 1]
        ELSE period[(i - surfacePointCount) % Len(tape)]
      Buffer(period) ==
        [idx \in 0..(PointsLength - 1) |-> Point(idx \div 3, period)[(idx % 3) + 1]]
  IN Only({Buffer(period) :
             period \in {Period(axes) : axes \in {AxisDensities(densityGrid_, gridSize)}}})

\* if (!img.features && img.data) img.features = extractFeaturePoints(img.data, 800)
\* An absent property is an absent field; an empty array is truthy.
ImageWithFeatures(img) ==
  IF "features" \notin DOMAIN img /\ "data" \in DOMAIN img
  THEN [features |-> extractFeaturePoints(img.data, 800)] @@ img
  ELSE img

RECURSIVE ConcatFeatures(_, _)
ConcatFeatures(images_, k) ==
  IF k = 0 THEN <<>>
  ELSE ConcatFeatures(images_, k - 1)
       \o (IF "features" \in DOMAIN images_[k] THEN images_[k].features ELSE <<>>)

\* The part of generatePointCloud before the first draw: the image objects with
\* their features stored on them, all features, the density grid and the
\* surface points.
PrepareCloud(images_, dimensions_) ==
  LET OnGrid(processed, all, grid) ==
        [processedImagesWithFeatures |-> processed,
         allFeatures |-> all,
         densityGrid |-> grid,
         surfacePoints |-> extractSurfacePoints(grid, gridSize, dimensions_)]
      OnFeatures(processed, all) ==
        Only({OnGrid(processed, all, grid) : grid \in {createDensityGrid(gridSize, all)}})
      OnImages(processed) ==
        Only({OnFeatures(processed, all) :
                all \in {ConcatFeatures(processed, Len(processed))}})
  IN Only({OnImages(processed) :
             processed \in {[k \in 1..Len(images_) |-> ImageWithFeatures(images_[k])]}})

\* The mutant of ChosenStrategy that takes the surface-biased strategy as soon
\* as there is any surface point.
ChosenStrategy_anySurface(surfacePoints_) ==
  IF Len(surfacePoints_) > 0 THEN "surface" ELSE "fallback"

\* if (surfacePoints.length > pointCount * 0.5)
ChosenStrategy(surfacePoints_) ==
  IF 2 * Len(surfacePoints_) > pointCount THEN "surface" ELSE "fallback"

\* The part of generatePointCloud that draws: the surface-biased strategy when
\* surfacePoints.length > pointCount * 0.5, the feature-guided one otherwise.
SampleCloud(prepared, dimensions_, tape) ==
  IF ChosenStrategy(prepared.surfacePoints) = "surface"
  THEN SurfaceStrategy(prepared.densityGrid, prepared.surfacePoints, dimensions_, tape)
  ELSE FallbackStrategy(prepared.allFeatures, dimensions_, tape)

\* The buffer returned and the images as the call leaves them (features are
\* stored on the image objects passed in).
generatePointCloud(images_, dimensions_, tape) ==
  Only({[points |-> SampleCloud(prepared, dimensions_, tape),
         images |-> prepared.processedImagesWithFeatures] :
          prepared \in {PrepareCloud(images_, dimensions_)}})

------------------------------------------------------------------------------
(* analyzeDimensions *)

\* The mutant of ValidBoxes: the filter is box.width >= 0 && box.height >= 0, a
\* box of a single pixel, row or column counts as valid.
ValidBoxes_allowsEmpty(processedImages) ==
  LET boundingBoxes == [k \in 1..Len(processedImages) |-> getObjectBounds(processedImages[k])]
      Valid(box) == box.width >= 0 /\ box.height >= 0
  IN SelectSeq(boundingBoxes, Valid)

\* The mutant of ValidBoxes without the filter: every box is kept.
ValidBoxes_unfiltered(processedImages) ==
  [k \in 1..Len(processedImages) |-> getObjectBounds(processedImages[k])]

\* The bounding boxes of the rasters, those with width > 0 and height > 0.
ValidBoxes(processedImages) ==
  LET boundingBoxes == [k \in 1..Len(processedImages) |-> getObjectBounds(processedImages[k])]
      Valid(box) == box.width > 0 /\ box.height > 0
  IN SelectSeq(boundingBoxes, Valid)

\* The mutant of analyzeDimensions that reads the depth from sortedByWidth[0].
analyzeDimensions_depthIsWidth(processedImages) ==
  LET validBoxes == ValidBoxes(processedImages)
      sortedByWidth == SortDescending(validBoxes, "width")
      sortedByHeight == SortDescending(validBoxes, "height")
  IN IF Len(validBoxes) = 0
     THEN [width |-> 100, height |-> 80, depth |-> 50]
     ELSE [width |-> sortedByWidth[1].width,
           height |-> sortedByHeight[1].height,
           depth |-> IF Len(sortedByWidth) > 1
                     THEN sortedByWidth[1].width
                     ELSE MathRound(8 * sortedByWidth[1].width, 10)]

\* Width and height are the largest over the valid boxes, depth the second
\* largest width, or 0.8 x the width when there is one box; each Math.round-ed.
\* With no valid box the fallback literal is returned: it has no confidence.
analyzeDimensions(processedImages) ==
  LET validBoxes == ValidBoxes(processedImages)
      sortedByWidth == SortDescending(validBoxes, "width")
      sortedByHeight == SortDescending(validBoxes, "height")
      width == sortedByWidth[1].width
      height == sortedByHeight[1].height
  IN IF Len(validBoxes) = 0
     THEN [width |-> 100, height |-> 80, depth |-> 50]
     ELSE [width |-> width,
           height |-> height,
           depth |-> IF Len(sortedByWidth) > 1
                     THEN sortedByWidth[2].width
                     ELSE MathRound(8 * width, 10)]

------------------------------------------------------------------------------
(* estimateDimensions and its mock detector (camera.ts) *)

\* A number that may be NaN.
Num(v) == [value |-> v]
NaN == [nan |-> TRUE]

\* An image element argument that is null.
Null == [null |-> TRUE]

\* Object.keys(REFERENCE_OBJECTS), in insertion order.
objectClasses ==
  << "cell phone", "remote", "mouse", "cup", "bottle", "keyboard", "book",
     "laptop", "monitor", "tv", "credit card", "soda can" >>

\* The reference table, in hundredths of a millimetre.
REFERENCE_OBJECTS ==
  [c \in {objectClasses[k] : k \in DOMAIN objectClasses} |->
     CASE c = "cell phone" -> [width |-> 7000, height |-> 15000, depth |-> 800]
       [] c = "remote" -> [width |-> 5000, height |-> 16000, depth |-> 2000]
       [] c = "mouse" -> [width |-> 6000, height |-> 11000, depth |-> 3500]
       [] c = "cup" -> [width |-> 8000, height |-> 9500, depth |-> 8000]
       [] c = "bottle" -> [width |-> 7000, height |-> 22000, depth |-> 7000]
       [] c = "keyboard" -> [width |-> 35000, height |-> 15000, depth |-> 2000]
       [] c = "book" -> [width |-> 17000, height |-> 24000, depth |-> 2500]
       [] c = "laptop" -> [width |-> 33000, height |-> 23000, depth |-> 2000]
       [] c = "monitor" -> [width |-> 50000, height |-> 34000, depth |-> 5000]
       [] c = "tv" -> [width |-> 90000, height |-> 55000, depth |-> 5000]
       [] c = "credit card" -> [width |-> 8560, height |-> 5398, depth |-> 76]
       [] c = "soda can" -> [width |-> 6600, height |-> 12300, depth |-> 6600]]

\* getDefaultDimensions(): the confidence in thousandths.
getDefaultDimensions ==
  [width |-> Num(120), height |-> Num(80), depth |-> Num(50), confidence |-> 500]

\* The measurement values and the end points of their lines, for a bounding
\* box in hundredths of a pixel and a scale factor in tenths.
generateMeasurementPoints(bbox, scaleFactor) ==
  LET x == bbox[1]
      y == bbox[2]
      width == bbox[3]
      height == bbox[4]
  IN [width |-> [value |-> MathRound(width * scaleFactor, 1000),
                 points |-> << <<x, y + height \div 2>>, <<x + width, y + height \div 2>> >>],
      height |-> [value |-> MathRound(height * scaleFactor, 1000),
                  points |-> << <<x + width \div 2, y>>, <<x + width \div 2, y + height>> >>],
      depth |-> [value |-> MathRound(7 * width * scaleFactor, 10000),
                 points |-> << <<x, y>>, <<x + (3 * width) \div 10, y - (2 * height) \div 10>> >>]]

\* A draw of Math.random() is given in hundredths.  draw = <<classDraw, scoreDraw>>:
\* the class is objectClasses[floor(classDraw * 12)], the score 0.86 + scoreDraw * 0.1
\* (in thousandths).  The bounding box covers the middle 40% of the element (in
\* hundredths of a pixel).  A null element throws on reading clientWidth.
mockImageAnalysis(imageElement, draw) ==
  IF imageElement = Null THEN [threw |-> "TypeError"]
  ELSE LET width == imageElement.clientWidth
           height == imageElement.clientHeight
           randomClass == objectClasses[((draw[1] * Len(objectClasses)) \div 100) + 1]
           prediction == [bbox |-> <<30 * width, 30 * height, 40 * width, 40 * height>>,
                          class |-> randomClass,
                          score |-> 860 + draw[2]]
       IN [detectedObjects |-> <<prediction>>,
           referenceObject |-> randomClass,
           scaleFactor |-> 12,
           measurements |-> generateMeasurementPoints(prediction.bbox, 12)]

\* Math.round(sum of dim * confidence / totalWeight), dim in hundredths of a mm;
\* 0 / 0 is NaN and Math.round(NaN) is NaN.
RECURSIVE WeightedSum(_, _, _)
WeightedSum(allDimensions, k, field) ==
  IF k = 0 THEN 0
  ELSE WeightedSum(allDimensions, k - 1, field)
       + allDimensions[k][field] * allDimensions[k].confidence

RECURSIVE TotalWeight(_, _)
TotalWeight(allDimensions, k) ==
  IF k = 0 THEN 0 ELSE TotalWeight(allDimensions, k - 1) + allDimensions[k].confidence

\* The mutant of CombinedValue that divides the weighted sum by the number of
\* views instead of the total weight.
CombinedValue_dividesByCount(allDimensions, field) ==
  IF Len(allDimensions) = 0 THEN NaN
  ELSE Num(MathRound(WeightedSum(allDimensions, Len(allDimensions), field),
                     100 * 1000 * Len(allDimensions)))

\* The mutant of CombinedValue that ignores the confidences: the plain mean.
CombinedValue_unweighted(allDimensions, field) ==
  IF Len(allDimensions) = 0 THEN NaN
  ELSE Num(MathRound(WeightedSum([k \in 1..Len(allDimensions) |->
                                    [allDimensions[k] EXCEPT !.confidence = 1]],
                                 Len(allDimensions), field),
                     100 * Len(allDimensions)))

CombinedValue(allDimensions, field) ==
  LET totalWeight == TotalWeight(allDimensions, Len(allDimensions))
  IN IF totalWeight = 0 THEN NaN
     ELSE Num(MathRound(WeightedSum(allDimensions, Len(allDimensions), field),
                        100 * totalWeight))

\* The try block: every view is analysed, the reference dimensions of the
\* detected classes are combined by confidence-weighted mean.
CombineDetections(analysisResults) ==
  LET allDimensions ==
        [k \in 1..Len(analysisResults) |->
           LET mainObject == analysisResults[k].detectedObjects[1]
               refDims == REFERENCE_OBJECTS[mainObject.class]
           IN [width |-> refDims.width, height |-> refDims.height,
               depth |-> refDims.depth, confidence |-> mainObject.score]]
  IN [width |-> CombinedValue(allDimensions, "width"),
      height |-> CombinedValue(allDimensions, "height"),
      depth |-> CombinedValue(allDimensions, "depth"),
      confidence |-> Min({1000, Max({0} \cup {allDimensions[k].confidence :
                                               k \in 1..Len(allDimensions)})})]

\* The mutant of estimateDimensions: totalWeight is not reset between calls, it
\* still holds the scores of the call before.
estimateDimensions_staleWeight(elements, draws) ==
  LET analysisResults == [k \in 1..Len(elements) |-> mockImageAnalysis(elements[k], draws[k])]
      Scored(results) == [k \in 1..Len(results) |->
                            [confidence |-> results[k].detectedObjects[1].score]]
      carried == IF estimate = None \/ "analysisData" \notin DOMAIN estimate.result
                 THEN 0
                 ELSE TotalWeight(Scored(estimate.result.analysisData),
                                  Len(estimate.result.analysisData))
      allDimensions ==
        [k \in 1..Len(analysisResults) |->
           LET mainObject == analysisResults[k].detectedObjects[1]
               refDims == REFERENCE_OBJECTS[mainObject.class]
           IN [width |-> refDims.width, height |-> refDims.height,
               depth |-> refDims.depth, confidence |-> mainObject.score]]
      totalWeight == carried + TotalWeight(allDimensions, Len(allDimensions))
      Combined(field) ==
        IF totalWeight = 0 THEN NaN
        ELSE Num(MathRound(WeightedSum(allDimensions, Len(allDimensions), field),
                           100 * totalWeight))
      threw == \E k \in 1..Len(elements) : "threw" \in DOMAIN analysisResults[k]
      mockAnalysis == mockImageAnalysis(elements[1], draws[Len(elements) + 1])
  IN IF ~threw
     THEN [dimensions |-> [width |-> Combined("width"), height |-> Combined("height"),
                           depth |-> Combined("depth"),
                           confidence |-> CombineDetections(analysisResults).confidence],
           analysisData |-> analysisResults]
     ELSE IF "threw" \in DOMAIN mockAnalysis
          THEN [rejected |-> mockAnalysis.threw]
          ELSE [dimensions |-> getDefaultDimensions,
                analysisData |-> <<mockAnalysis>>]

\* draws[k] is drawn by mockImageAnalysis for view k; draws[Len(elements) + 1] by
\* the mockImageAnalysis of the catch block.  The promise is fulfilled with
\* [dimensions, analysisData], or rejected when the catch block throws in turn.
estimateDimensions(elements, draws) ==
  LET analysisResults == [k \in 1..Len(elements) |-> mockImageAnalysis(elements[k], draws[k])]
      threw == \E k \in 1..Len(elements) : "threw" \in DOMAIN analysisResults[k]
      mockAnalysis == mockImageAnalysis(elements[1], draws[Len(elements) + 1])
  IN IF ~threw
     THEN [dimensions |-> CombineDetections(analysisResults),
           analysisData |-> analysisResults]
     ELSE IF "threw" \in DOMAIN mockAnalysis
          THEN [rejected |-> mockAnalysis.threw]
          ELSE [dimensions |-> getDefaultDimensions,
                analysisData |-> <<mockAnalysis>>]

------------------------------------------------------------------------------
(* Inputs *)

\* The largest width and height of the small rasters.
MaxSide == 3

Black == <<0, 0, 0>>
White == <<255, 255, 255>>
Teal == <<10, 200, 90>>
Palette == {Black, White, Teal}

\* Componentwise (3 a + b) / 4 and (a + b) / 2 of two colours.
Blend(a, b, wa, wb) == [k \in 1..3 |-> (wa * a[k] + wb * b[k]) \div (wa + wb)]

\* The colour of pixel (x, y) of a test raster.
\*   uniform: a everywhere;  split: a left of the middle column, b right of it;
\*   checker: a and b alternating;  square: b on the centred square covering the
\*   middle 2/5 of each side, a around it;
\*   bands: vertical bands, a on columns 0..4, b on 5..10, then a step down
\*   towards the mean of a and b.
PixelColour(kind, x, y, w, h, a, b) ==
  CASE kind = "uniform" -> a
    [] kind = "split" -> IF 2 * x < w THEN a ELSE b
    [] kind = "checker" -> IF (x + y) % 2 = 0 THEN a ELSE b
    [] kind = "square" -> IF /\ 10 * x >= 3 * w /\ 10 * x < 7 * w
                             /\ 10 * y >= 3 * h /\ 10 * y < 7 * h
                          THEN b ELSE a
    [] kind = "bands" -> IF x < 5 THEN a
                         ELSE IF x < 11 THEN b
                         ELSE IF x = 11 THEN Blend(b, a, 3, 1)
                         ELSE Blend(b, a, 1, 1)

\* An opaque w x h raster: interleaved RGBA bytes, row-major.
TestImage(kind, w, h, a, b) ==
  [width |-> w, height |-> h,
   data |-> [i \in 0..(4 * w * h - 1) |->
               IF i % 4 = 3 THEN 255
               ELSE PixelColour(kind, (i \div 4) % w, (i \div 4) \div w, w, h, a, b)[(i % 4) + 1]]]

\* Small rasters of every size up to MaxSide x MaxSide.
SmallImages ==
  {TestImage("uniform", w, h, a, a) : w \in 1..MaxSide, h \in 1..MaxSide, a \in Palette}
  \cup {TestImage(kind, w, h, c[1], c[2]) :
          kind \in {"split", "checker"}, w \in 1..MaxSide, h \in 1..MaxSide,
          c \in {<<Black, White>>, <<White, Teal>>}}

\* Rasters large enough to hold feature points (more than 2 * windowSize wide
\* and high).
LargeImages ==
  { TestImage("bands", 17, 19, Black, White),
    TestImage("bands", 17, 19, Teal, Black),
    TestImage("square", 20, 20, Black, White),
    TestImage("split", 12, 17, White, Black),
    TestImage("checker", 11, 11, Black, Teal),
    TestImage("uniform", 12, 12, Teal, Teal) }

\* A square raster with a centred square of the second colour covering the
\* middle 2/5 of each side: for side 100, the 40 x 40 square at (30, 30).
SceneImage(scene_) ==
  TestImage("square", scene_.side, scene_.side, scene_.colours[1], scene_.colours[2])

Scenes ==
  {[side |-> n, colours |-> c] :
     n \in {10, 12, 15, 20}, c \in {<<Black, White>>, <<White, Black>>, <<Teal, White>>}}
  \cup {[side |-> 100, colours |-> <<Black, White>>]}

\* The raster with the alpha of pixel p replaced by (97 * p) % 256: pixel 0 is
\* transparent, the others take varied alphas.
WithAlpha(raster) ==
  [raster EXCEPT !.data = [i \in DOMAIN raster.data |->
                             IF i % 4 = 3 THEN (97 * (i \div 4)) % 256
                             ELSE raster.data[i]]]

\* Rasters that are not opaque everywhere.
TranslucentImages ==
  { WithAlpha(TestImage("bands", 17, 19, Black, White)),
    WithAlpha(TestImage("checker", 3, 3, White, Teal)),
    WithAlpha(TestImage("split", 12, 17, White, Black)) }

\* threshold in tenths; 0.2, edge detection and 300 points are what the image
\* viewer passes, 800 points what generatePointCloud passes.
ImageOptions ==
  {[threshold |-> 2, edgeDetection |-> TRUE, maxPoints |-> 300],
   [threshold |-> 2, edgeDetection |-> TRUE, maxPoints |-> 17],
   [threshold |-> 0, edgeDetection |-> TRUE, maxPoints |-> 1],
   [threshold |-> 5, edgeDetection |-> TRUE, maxPoints |-> 5],
   [threshold |-> 2, edgeDetection |-> FALSE, maxPoints |-> 300],
   [threshold |-> 5, edgeDetection |-> FALSE, maxPoints |-> 800]}

PipelineOptions ==
  {[threshold |-> 2, edgeDetection |-> TRUE, maxPoints |-> 17],
   [threshold |-> 2, edgeDetection |-> TRUE, maxPoints |-> 300],
   [threshold |-> 2, edgeDetection |-> FALSE, maxPoints |-> 1],
   [threshold |-> 5, edgeDetection |-> FALSE, maxPoints |-> 800]}

\* The dimensions handed to extractSurfacePoints.
PipelineDimensions == [width |-> 120, height |-> 80, depth |-> 50]

------------------------------------------------------------------------------
(* The caller's sequence of image-side calls *)

ImageIdle ==
  /\ pass = 0 /\ imageData = None /\ options = None
  /\ edges = None /\ masked = None /\ bounds = None /\ features = None
  /\ firstPass = None
GridIdle == splatGrid = None /\ densityGrid = None /\ surfacePoints = None
AnalyzeIdle == views = <<>> /\ dimensions = None
EstimateIdle == imageElements = <<>> /\ estimate = None /\ prevEstimate = None
CloudIdle == images = <<>> /\ cloud = None /\ randomTape = None /\ strategy = None
FunctionIdle == scene = None /\ weightArray = None /\ sampled = None

InitOn(rasters, optionSets) ==
  /\ imageData \in rasters
  /\ options \in optionSets
  /\ pc = "detectEdges"
  /\ pass = 1
  /\ edges = None /\ masked = None /\ bounds = None /\ features = None
  /\ firstPass = None
  /\ GridIdle /\ AnalyzeIdle /\ EstimateIdle /\ CloudIdle /\ FunctionIdle

DetectEdges ==
  /\ pc = "detectEdges"
  /\ edges' = detectEdges(imageData)
  /\ pc' = "removeBackground"
  /\ UNCHANGED <<functionVars, pass, imageData, options, masked, bounds, features, gridVars, firstPass,
               analyzeVars, estimateVars, cloudVars>>

RemoveBackground ==
  /\ pc = "removeBackground"
  /\ masked' = removeBackground(imageData, options)
  /\ pc' = "getObjectBounds"
  /\ UNCHANGED <<functionVars, pass, imageData, options, edges, bounds, features, gridVars, firstPass,
               analyzeVars, estimateVars, cloudVars>>

GetObjectBounds ==
  /\ pc = "getObjectBounds"
  /\ bounds' = getObjectBounds(masked)
  /\ pc' = "extractFeaturePoints"
  /\ UNCHANGED <<functionVars, pass, imageData, options, edges, masked, features, gridVars, firstPass,
               analyzeVars, estimateVars, cloudVars>>

ExtractFeaturePoints ==
  /\ pc = "extractFeaturePoints"
  /\ features' = extractFeaturePoints(masked, options.maxPoints)
  /\ pc' = "createDensityGrid"
  /\ UNCHANGED <<functionVars, pass, imageData, options, edges, masked, bounds, gridVars, firstPass,
               analyzeVars, estimateVars, cloudVars>>

CreateDensityGrid ==
  /\ pc = "createDensityGrid"
  /\ splatGrid' = SplatFeatures(gridSize, features)
  /\ densityGrid' = createDensityGrid(gridSize, features)
  /\ pc' = "extractSurfacePoints"
  /\ UNCHANGED <<functionVars, pass, imageVars, surfacePoints, firstPass, analyzeVars, estimateVars, cloudVars>>

ExtractSurfacePoints ==
  /\ pc = "extractSurfacePoints"
  /\ surfacePoints' = extractSurfacePoints(densityGrid, gridSize, PipelineDimensions)
  /\ pc' = "done"
  /\ UNCHANGED <<functionVars, pass, imageVars, splatGrid, densityGrid, firstPass, analyzeVars, estimateVars, cloudVars>>

\* The caller runs the same calls again on the same input.
Results ==
  [edges |-> edges, masked |-> masked, bounds |-> bounds, features |-> features,
   densityGrid |-> densityGrid, surfacePoints |-> surfacePoints]

Repeat ==
  /\ pc = "done"
  /\ pass = 1
  /\ firstPass' = Results
  /\ pass' = 2
  /\ pc' = "detectEdges"
  /\ edges' = None /\ masked' = None /\ bounds' = None /\ features' = None
  /\ splatGrid' = None /\ densityGrid' = None /\ surfacePoints' = None
  /\ UNCHANGED <<functionVars, imageData, options, analyzeVars, estimateVars, cloudVars>>

\* The per-image calls on one raster: detectEdges, removeBackground,
\* getObjectBounds and extractFeaturePoints.
ImageInit == InitOn(SmallImages \cup LargeImages \cup TranslucentImages, ImageOptions)
ImageNext == DetectEdges \/ RemoveBackground \/ GetObjectBounds \/ ExtractFeaturePoints
SpecImage == ImageInit /\ [][ImageNext]_vars

\* The whole chain of deterministic image-side components, run twice.
PipelineInit == InitOn(LargeImages, PipelineOptions)
PipelineNext ==
  \/ DetectEdges \/ RemoveBackground \/ GetObjectBounds \/ ExtractFeaturePoints
  \/ CreateDensityGrid \/ ExtractSurfacePoints \/ Repeat
SpecPipeline == PipelineInit /\ [][PipelineNext]_vars

------------------------------------------------------------------------------
(* The mask and the bounding box of a square scene *)

\* The options the image viewer passes.
ViewerOptions == {[threshold |-> 2, edgeDetection |-> TRUE, maxPoints |-> 300]}

SceneInit ==
  /\ scene \in Scenes
  /\ options \in (IF scene.side = 100 THEN ViewerOptions ELSE ImageOptions)
  /\ pc = "scene"
  /\ pass = 0 /\ imageData = None
  /\ edges = None /\ masked = None /\ bounds = None /\ features = None
  /\ firstPass = None /\ weightArray = None /\ sampled = None
  /\ GridIdle /\ AnalyzeIdle /\ EstimateIdle /\ CloudIdle

\* removeBackground on the raster of the scene, then getObjectBounds on the
\* processed raster; only the box is kept.
MaskAndBound ==
  /\ pc = "scene"
  /\ bounds' = getObjectBounds(removeBackground(SceneImage(scene), options))
  /\ pc' = "bounded"
  /\ UNCHANGED <<scene, weightArray, sampled, pass, imageData, options, edges, masked, features,
               gridVars, firstPass, analyzeVars, estimateVars, cloudVars>>

SceneNext == MaskAndBound
SpecScene == SceneInit /\ [][SceneNext]_vars

------------------------------------------------------------------------------
(* createDensityGrid over an arbitrary list of feature points *)

\* The longest list of feature points.
MaxFeatures == 2

\* Feature points <<x, y, q>> with coordinates below, inside and above [0, 1]
\* (pixel coordinates, as generatePointCloud passes them, lie above) and
\* confidences 0, 0.25, 0.5 and 1.
FeatureChoices ==
  { << FixedOne \div 2, FixedOne \div 2, ConfidenceQ(1000) >>,
    << FixedOne \div 2, (55 * FixedOne) \div 100, ConfidenceQ(500) >>,
    << (6 * FixedOne) \div 10, FixedOne \div 2, ConfidenceQ(250) >>,
    << 0 - FixedOne, FixedOne \div 4, ConfidenceQ(500) >>,
    << (95 * FixedOne) \div 100, FixedOne, ConfidenceQ(1000) >>,
    << 7 * FixedOne, 5 * FixedOne, ConfidenceQ(250) >>,
    << FixedOne \div 10, (9 * FixedOne) \div 10, 0 >> }

GridInit ==
  /\ pc = "createDensityGrid"
  /\ pass = 1
  /\ imageData = None /\ options = None
  /\ edges = None /\ masked = None /\ bounds = None
  /\ features = <<>>
  /\ firstPass = None
  /\ GridIdle /\ AnalyzeIdle /\ EstimateIdle /\ CloudIdle /\ FunctionIdle

AddFeature ==
  /\ pc = "createDensityGrid"
  /\ Len(features) < MaxFeatures
  /\ \E f \in FeatureChoices : features' = Append(features, f)
  /\ UNCHANGED <<functionVars, pc, pass, imageData, options, edges, masked, bounds, gridVars, firstPass,
               analyzeVars, estimateVars, cloudVars>>

GridNext == AddFeature \/ CreateDensityGrid
SpecGrid == GridInit /\ [][GridNext]_vars

------------------------------------------------------------------------------
(* extractSurfacePoints on the grid of a list of features *)

\* The lists of one or two feature points.
SurfaceFeatureLists ==
  {<<f>> : f \in FeatureChoices} \cup {<<f, g>> : f \in FeatureChoices, g \in FeatureChoices}

SurfaceInit ==
  /\ pc = "createDensityGrid"
  /\ pass = 1
  /\ imageData = None /\ options = None
  /\ edges = None /\ masked = None /\ bounds = None
  /\ features \in SurfaceFeatureLists
  /\ firstPass = None
  /\ GridIdle /\ AnalyzeIdle /\ EstimateIdle /\ CloudIdle /\ FunctionIdle

SurfaceNext == CreateDensityGrid \/ ExtractSurfacePoints
SpecSurface == SurfaceInit /\ [][SurfaceNext]_vars

------------------------------------------------------------------------------
(* analyzeDimensions over a list of processed views *)

\* The longest list of views and of image elements.
MaxViews == 2

\* Processed rasters: removeBackground applied to test rasters.
ProcessedViews ==
  {removeBackground(TestImage("uniform", 2, 3, Teal, Teal),
                    [threshold |-> 2, edgeDetection |-> TRUE]),
   removeBackground(TestImage("split", 3, 3, Black, White),
                    [threshold |-> 2, edgeDetection |-> TRUE]),
   removeBackground(TestImage("checker", 3, 3, Black, Teal),
                    [threshold |-> 2, edgeDetection |-> FALSE]),
   removeBackground(TestImage("checker", 4, 1, White, Black),
                    [threshold |-> 2, edgeDetection |-> FALSE]),
   removeBackground(TestImage("bands", 17, 19, Black, White),
                    [threshold |-> 2, edgeDetection |-> TRUE]),
   removeBackground(TestImage("square", 20, 20, Black, White),
                    [threshold |-> 2, edgeDetection |-> TRUE]),
   removeBackground(TestImage("square", 20, 20, Black, White),
                    [threshold |-> 2, edgeDetection |-> FALSE]),
   removeBackground(TestImage("square", 10, 15, White, Teal),
                    [threshold |-> 2, edgeDetection |-> FALSE])}

AnalyzeInit ==
  /\ pc = "views"
  /\ views = <<>> /\ dimensions = None
  /\ ImageIdle /\ GridIdle /\ EstimateIdle /\ CloudIdle /\ FunctionIdle

AddView ==
  /\ pc = "views"
  /\ Len(views) < MaxViews
  /\ \E v \in ProcessedViews : views' = Append(views, v)
  /\ UNCHANGED <<functionVars, pc, pass, imageVars, gridVars, firstPass, dimensions, estimateVars, cloudVars>>

AnalyzeDimensions ==
  /\ pc = "views"
  /\ dimensions' = analyzeDimensions(views)
  /\ pc' = "analyzed"
  /\ UNCHANGED <<functionVars, pass, imageVars, gridVars, firstPass, views, estimateVars, cloudVars>>

AnalyzeNext == AddView \/ AnalyzeDimensions
SpecAnalyze == AnalyzeInit /\ [][AnalyzeNext]_vars

------------------------------------------------------------------------------
(* estimateDimensions called repeatedly on a list of image elements *)

ImageElements ==
  {[clientWidth |-> 100, clientHeight |-> 80],
   [clientWidth |-> 640, clientHeight |-> 480],
   Null}

\* The values of Math.random() drawn for the class and for the score, in
\* hundredths.
ClassDraws == {0, 33, 99}
ScoreDraws == {0, 99}

EstimateInit ==
  /\ pc = "elements"
  /\ imageElements = <<>> /\ estimate = None /\ prevEstimate = None
  /\ ImageIdle /\ GridIdle /\ AnalyzeIdle /\ CloudIdle /\ FunctionIdle

AddImageElement ==
  /\ pc = "elements"
  /\ Len(imageElements) < MaxViews
  /\ \E e \in ImageElements : imageElements' = Append(imageElements, e)
  /\ UNCHANGED <<functionVars, pc, pass, imageVars, gridVars, firstPass, analyzeVars, estimate, prevEstimate, cloudVars>>

\* The draws of one call of estimateDimensions and its settled promise.  Only
\* the draws that reach the result are enumerated: those of the views when no
\* view throws, that of the catch block when one does.
EstimateWith(classDraws) ==
  \E draws \in [1..(Len(imageElements) + 1) -> classDraws \X ScoreDraws] :
    LET result == estimateDimensions(imageElements, draws)
        caught == \E k \in 1..Len(imageElements) : imageElements[k] = Null
    IN /\ (~caught => draws[Len(imageElements) + 1] = <<0, 0>>)
       /\ (caught => \A k \in 1..Len(imageElements) : draws[k] = <<0, 0>>)
       /\ estimate' = [draws |-> draws, result |-> result]

\* One call of estimateDimensions, awaited; the caller calls twice.
EstimateDimensions ==
  /\ pc \in {"elements", "estimated"}
  /\ EstimateWith(ClassDraws)
  /\ prevEstimate' = estimate
  /\ pc' = IF pc = "elements" THEN "estimated" ELSE "repeated"
  /\ UNCHANGED <<functionVars, pass, imageVars, gridVars, firstPass, analyzeVars, imageElements, cloudVars>>

EstimateNext == AddImageElement \/ EstimateDimensions
SpecEstimate == EstimateInit /\ [][EstimateNext]_vars

\* One class draw for every entry of REFERENCE_OBJECTS, the smallest that
\* selects it: floor(draw * 12) runs over 0..11.
TableDraws ==
  {(100 * k + Len(objectClasses) - 1) \div Len(objectClasses) :
     k \in 0..(Len(objectClasses) - 1)}

\* A single call of estimateDimensions in which the detector may report any
\* class of the table.
EstimateAnyClass ==
  /\ pc = "elements"
  /\ EstimateWith(TableDraws)
  /\ prevEstimate' = estimate
  /\ pc' = "estimated"
  /\ UNCHANGED <<functionVars, pass, imageVars, gridVars, firstPass, analyzeVars, imageElements, cloudVars>>

TableNext == AddImageElement \/ EstimateAnyClass
SpecTable == EstimateInit /\ [][TableNext]_vars

------------------------------------------------------------------------------
(* generatePointCloud called on a list of image objects *)

\* The longest list of image objects.
MaxImages == 2

\* An image object as the image viewer builds it (the masked raster under
\* processed, features extracted with maxPoints 300, no data property), one
\* that carries its raster as data and no features yet, and one with neither.
CloudImages ==
  LET Segment(raster) == removeBackground(raster, [threshold |-> 2, edgeDetection |-> TRUE])
      square == Segment(TestImage("square", 20, 20, Black, White))
      bands == Segment(TestImage("bands", 17, 19, Black, White))
  IN { [processed |-> square, features |-> extractFeaturePoints(square, 300)],
       [data |-> bands],
       [processed |-> bands] }

\* The streams of Math.random() draws, in hundredths.
RandomTapes ==
  { <<0>>, <<99>>, <<50>>, <<99, 50, 10>>, <<71, 72, 0>>,
    <<75, 20, 99, 5, 60, 71, 33>>, <<10, 90, 30, 70, 50>> }

CloudInit ==
  /\ pc = "images"
  /\ CloudIdle
  /\ dimensions = PipelineDimensions
  /\ views = <<>>
  /\ ImageIdle /\ GridIdle /\ EstimateIdle /\ FunctionIdle

AddImage ==
  /\ pc = "images"
  /\ Len(images) < MaxImages
  /\ \E img \in CloudImages : images' = Append(images, img)
  /\ UNCHANGED <<functionVars, pc, pass, imageVars, gridVars, firstPass, analyzeVars, estimateVars,
               cloud, randomTape, strategy>>

\* One call of generatePointCloud.  What precedes the first draw is computed
\* once for all streams of draws.
GeneratePointCloud ==
  /\ pc = "images"
  /\ \E prepared \in {PrepareCloud(images, dimensions)} : \E tape \in RandomTapes :
       /\ cloud' = SampleCloud(prepared, dimensions, tape)
       /\ images' = prepared.processedImagesWithFeatures
       /\ randomTape' = tape
       /\ strategy' = ChosenStrategy(prepared.surfacePoints)
       /\ surfacePoints' = prepared.surfacePoints
  /\ pc' = "generated"
  /\ UNCHANGED <<functionVars, pass, imageVars, splatGrid, densityGrid, firstPass, analyzeVars,
               estimateVars>>

CloudNext == AddImage \/ GeneratePointCloud
SpecCloud == CloudInit /\ [][CloudNext]_vars

------------------------------------------------------------------------------
(* One call of generatePointCloud for several boxes *)

\* The image lists of a call: no image, each image alone, and a viewer image
\* with one that carries its raster.
FallbackImageLists ==
  {<<>>} \cup {<<img>> : img \in CloudImages}
         \cup {<<a, b>> : a \in {img \in CloudImages : "features" \in DOMAIN img},
                         b \in {img \in CloudImages : "data" \in DOMAIN img}}

\* The dimensions argument: the box of the pipeline, a cube, and a flat box.
FallbackDimensions ==
  { PipelineDimensions,
    [width |-> 50, height |-> 50, depth |-> 50],
    [width |-> 10, height |-> 200, depth |-> 30] }

FallbackInit ==
  /\ pc = "images"
  /\ images \in FallbackImageLists
  /\ cloud = None /\ randomTape = None /\ strategy = None
  /\ dimensions \in FallbackDimensions
  /\ views = <<>>
  /\ ImageIdle /\ GridIdle /\ EstimateIdle /\ FunctionIdle

SpecFallback == FallbackInit /\ [][GeneratePointCloud]_vars

------------------------------------------------------------------------------
(* The sampling helpers on arbitrary arrays and grids *)

\* The longest weight array and the largest grid side.
MaxBins == 3

\* Weight arrays of every length up to MaxBins, the all-zero ones included.
WeightArrays ==
  UNION {[0..(n - 1) -> {0, FixedOne \div 4, FixedOne}] : n \in 1..MaxBins}

\* Grids of side n: all zero, a single cell of density 1, density 0.5 everywhere.
SampleGrids ==
  UNION {{[x \in 0..(n - 1) |-> [y \in 0..(n - 1) |-> [z \in 0..(n - 1) |-> 0]]],
          [x \in 0..(n - 1) |-> [y \in 0..(n - 1) |-> [z \in 0..(n - 1) |->
             IF x = 0 /\ y = n - 1 /\ z = 1 THEN FixedOne ELSE 0]]],
          [x \in 0..(n - 1) |-> [y \in 0..(n - 1) |-> [z \in 0..(n - 1) |->
             FixedOne \div 2]]]} : n \in 2..MaxBins}

SamplingTapes == {<<0>>, <<99>>, <<50, 99, 0, 10, 75, 33, 60>>}

SamplingInit ==
  /\ pc = "normalizeArray"
  /\ weightArray \in WeightArrays
  /\ densityGrid \in SampleGrids
  /\ randomTape \in SamplingTapes
  /\ dimensions = PipelineDimensions
  /\ sampled = None /\ scene = None
  /\ splatGrid = None /\ surfacePoints = None
  /\ images = <<>> /\ cloud = None /\ strategy = None
  /\ views = <<>>
  /\ ImageIdle /\ EstimateIdle

NormalizeArray ==
  /\ pc = "normalizeArray"
  /\ sampled' = [normalized |-> normalizeArray(weightArray)]
  /\ pc' = "weightedRandomIndex"
  /\ UNCHANGED <<scene, weightArray, pass, imageVars, gridVars, firstPass, analyzeVars,
               estimateVars, cloudVars>>

\* The draw is the first of the stream.
WeightedRandomIndex ==
  /\ pc = "weightedRandomIndex"
  /\ sampled' = [index |-> weightedRandomIndex(weightArray, Draw(randomTape, 0))] @@ sampled
  /\ pc' = "sampleFromDensityGrid"
  /\ UNCHANGED <<scene, weightArray, pass, imageVars, gridVars, firstPass, analyzeVars,
               estimateVars, cloudVars>>

\* The six draws follow the one of weightedRandomIndex.
SampleFromDensityGrid ==
  /\ pc = "sampleFromDensityGrid"
  /\ sampled' = [point |-> sampleFromDensityGrid(densityGrid, Cardinality(DOMAIN densityGrid),
                                                 dimensions, randomTape, 1)] @@ sampled
  /\ pc' = "sampled"
  /\ UNCHANGED <<scene, weightArray, pass, imageVars, gridVars, firstPass, analyzeVars,
               estimateVars, cloudVars>>

SamplingNext == NormalizeArray \/ WeightedRandomIndex \/ SampleFromDensityGrid
SpecSampling == SamplingInit /\ [][SamplingNext]_vars

------------------------------------------------------------------------------
(* pullPointToSurface on arbitrary buffers *)

\* The number of points in the buffers handed to pullPointToSurface.
BufferPoints == 2

\* Coordinates as tenths of the half extent, from face to face.
CoordinateTenths == {0 - 10, 0 - 5, 0, 3, 5, 10}

PullDimensions == {PipelineDimensions, [width |-> 60, height |-> 60, depth |-> 90]}

\* A buffer whose point `index` takes every combination of coordinates and
\* whose other points lie at fixed places inside the box.
PullBuffers(dimensions_, index) ==
  LET Half(axis) ==
        (FixedOne * (CASE axis = 0 -> dimensions_.width [] axis = 1 -> dimensions_.height
                       [] axis = 2 -> dimensions_.depth)) \div 2
  IN {[k \in 0..(3 * BufferPoints - 1) |->
         IF k \div 3 = index THEN (t[(k % 3) + 1] * Half(k % 3)) \div 10
         ELSE ((k + 2) * Half(k % 3)) \div 10] :
        t \in CoordinateTenths \X CoordinateTenths \X CoordinateTenths}

PullInit ==
  /\ pc = "pull"
  /\ dimensions \in PullDimensions
  /\ \E index \in 0..(BufferPoints - 1) :
       /\ cloud \in PullBuffers(dimensions, index)
       /\ sampled = [index |-> index, before |-> cloud]
  /\ scene = None /\ weightArray = None
  /\ images = <<>> /\ randomTape = None /\ strategy = None
  /\ views = <<>>
  /\ ImageIdle /\ GridIdle /\ EstimateIdle

PullPointToSurface ==
  /\ pc = "pull"
  /\ cloud' = PullInBuffer(cloud, sampled.index, dimensions)
  /\ pc' = "pulled"
  /\ UNCHANGED <<functionVars, pass, imageVars, gridVars, firstPass, analyzeVars, estimateVars,
               images, randomTape, strategy>>

PullNext == PullPointToSurface
SpecPull == PullInit /\ [][PullNext]_vars

------------------------------------------------------------------------------
(* Properties *)

\* The calls of the image-side chain in the caller's order.
CallOrder ==
  << "detectEdges", "removeBackground", "getObjectBounds", "extractFeaturePoints",
     "createDensityGrid", "extractSurfacePoints", "done" >>

\* The named call has returned in the current run.
Returned(call) ==
  \E i, j \in DOMAIN CallOrder : i < j /\ CallOrder[i] = call /\ CallOrder[j] = pc

AllTransparent(raster) ==
  \A p \in 0..(raster.width * raster.height - 1) : raster.data[4 * p + 3] = 0

\* C1: getObjectBounds of a raster with no pixel of alpha > 0 returns width 0
\* and height 0, and no returned width or height is negative.
C1_EmptyBoxNeverNegative ==
  Returned("getObjectBounds") =>
    /\ AllTransparent(masked) => (bounds.width = 0 /\ bounds.height = 0)
    /\ bounds.width >= 0
    /\ bounds.height >= 0

\* C2: estimateDimensions of an empty list of views is fulfilled with exactly
\* the dimensions {width: 120, height: 80, depth: 50, confidence: 0.5}.
C2_ZeroViewsGiveDefault ==
  (estimate # None /\ imageElements = <<>>) =>
    /\ "dimensions" \in DOMAIN estimate.result
    /\ estimate.result.dimensions =
         [width |-> Num(120), height |-> Num(80), depth |-> Num(50), confidence |-> 500]

\* No view has a bounding box with width > 0 and height > 0.
NoNonEmptyBox(processedImages) ==
  \A k \in 1..Len(processedImages) :
     LET box == getObjectBounds(processedImages[k])
     IN ~(box.width > 0 /\ box.height > 0)

C4_BufferHasThreeFloatsPerPoint ==
  pc = "generated" =>
    /\ DOMAIN cloud = 0..(3 * 5000 - 1)
    /\ \A idx \in DOMAIN cloud : cloud[idx] \in Int

\* A cloud generated from features, with draws that vary from point to point.
C4_Witness ==
  /\ pc = "generated"
  /\ Len(ConcatFeatures(images, Len(images))) > 0
  /\ Len(randomTape) > 1
  /\ \E i \in 1..(pointCount - 1) : cloud[3 * i] # cloud[0]

IsBorder(idx, width, height) ==
  LET x == idx % width
      y == idx \div width
  IN x = 0 \/ y = 0 \/ x = width - 1 \/ y = height - 1

\* C5: the edge map has exactly width*height entries, every entry of the
\* outermost ring is 0, and a raster narrower or lower than 3 pixels has an
\* all-zero map.
C5_EdgeMapSizeAndZeroBorder ==
  Returned("detectEdges") =>
    /\ DOMAIN edges = 0..(imageData.width * imageData.height - 1)
    /\ \A idx \in DOMAIN edges :
         IsBorder(idx, imageData.width, imageData.height) => edges[idx] = 0
    /\ (imageData.width < 3 \/ imageData.height < 3) =>
         \A idx \in DOMAIN edges : edges[idx] = 0

\* A raster of at least 3 x 3 pixels whose map has a non-zero interior entry.
C5_Witness ==
  /\ Returned("detectEdges")
  /\ imageData.width >= 3 /\ imageData.height >= 3
  /\ \E idx \in DOMAIN edges : edges[idx] > 0

UniformRGB(raster) ==
  \A p \in 0..(raster.width * raster.height - 1) : \A c \in 0..2 :
     raster.data[4 * p + c] = raster.data[c]

\* C6: when all pixels of the raster have the same RGB value, every entry of
\* the edge map is 0.
C6_UniformImageHasNoEdges ==
  (Returned("detectEdges") /\ UniformRGB(imageData)) =>
    \A idx \in DOMAIN edges : edges[idx] = 0

\* A uniform raster that is not black and has interior pixels.
C6_Witness ==
  /\ Returned("detectEdges")
  /\ UniformRGB(imageData)
  /\ imageData.width >= 3 /\ imageData.height >= 3
  /\ imageData.data[1] > 0

\* C7: the feature points are at most maxPoints and their confidences do not
\* increase from first to last.
C7_FeaturesSortedAndBounded ==
  Returned("extractFeaturePoints") =>
    /\ Len(features) <= options.maxPoints
    /\ \A k \in 1..(Len(features) - 1) : features[k][3] >= features[k + 1][3]

\* More local maxima than maxPoints were found, of differing confidence.
C7_Witness ==
  /\ Returned("extractFeaturePoints")
  /\ Len(LocalMaxima(masked, options.maxPoints)) > options.maxPoints
  /\ Len(features) = options.maxPoints
  /\ features[1][3] > features[Len(features)][3]

\* Every cell of an N x N x N grid is >= 0.
NonNegative(grid, N) ==
  \A x \in 0..(N - 1) : \A y \in 0..(N - 1) : \A z \in 0..(N - 1) : grid[x][y][z] >= 0

\* Every confidence lies in [0, 1]: 0 <= sqrt(q) / EdgeNorm <= 1.
ConfidencesInUnitInterval(features_) ==
  \A k \in 1..Len(features_) : features_[k][3] >= 0 /\ features_[k][3] <= EdgeNorm * EdgeNorm

\* C8: for feature points with confidences in [0, 1], every cell of the density
\* grid is >= 0 after createDensityGrid, and every cell of the grid between
\* splatting and smoothing is >= 0 too.
C8_DensityNonNegative ==
  (Returned("createDensityGrid") /\ ConfidencesInUnitInterval(features)) =>
    /\ NonNegative(splatGrid, gridSize)
    /\ NonNegative(densityGrid, gridSize)

\* Two features were splatted, one of them with the falsy confidence 0, and
\* the smoothing spread density into a cell the splat left empty.
C8_Witness ==
  /\ Returned("createDensityGrid")
  /\ Len(features) = 2
  /\ \E k \in 1..2 : features[k][3] = 0
  /\ \E x \in 1..(gridSize - 2) : \E z \in 1..(gridSize - 2) :
       splatGrid[x][gridSize \div 2][z] = 0 /\ densityGrid[x][gridSize \div 2][z] > 0

SameDimensions(a, b) ==
  /\ "dimensions" \in DOMAIN a.result
  /\ "dimensions" \in DOMAIN b.result
  /\ a.result.dimensions = b.result.dimensions

------------------------------------------------------------------------------
(* Claims about the combination of detections *)

\* The call was fulfilled by the try block: every view was analysed.
AllAnalysed == pc = "estimated" /\ \A k \in 1..Len(imageElements) : imageElements[k] # Null

\* The class and score of the main object detected in view k.
MainObject(k) == estimate.result.analysisData[k].detectedObjects[1]

SingleCupView == AllAnalysed /\ Len(imageElements) = 1 /\ MainObject(1).class = "cup"

\* A detection of a cup with confidence 1.0, which the mock detector (scores
\* 0.86 to 0.96) never reports itself.
CertainCup == [detectedObjects |-> <<[class |-> "cup", score |-> 1000]>>]

IsCupSize(d) == d.width = Num(80) /\ d.height = Num(95) /\ d.depth = Num(80)

\* C11: estimateDimensions on exactly one view whose detection is a cup
\* (reference dimensions 80, 95, 80) returns width 80, height 95, depth 80,
\* whatever the confidence of the detection, 1.0 included.
C11_SingleCupViewGivesCupSize ==
  /\ SingleCupView => IsCupSize(estimate.result.dimensions)
  /\ IsCupSize(CombineDetections(<<CertainCup>>))

C11_Witness == SingleCupView /\ IsCupSize(estimate.result.dimensions)

\* The reference dimensions and confidence of every analysed view.
ViewDimensions ==
  [k \in 1..Len(imageElements) |->
     [width |-> REFERENCE_OBJECTS[MainObject(k).class].width,
      height |-> REFERENCE_OBJECTS[MainObject(k).class].height,
      depth |-> REFERENCE_OBJECTS[MainObject(k).class].depth,
      confidence |-> MainObject(k).score]]

Fields == {"width", "height", "depth"}

\* C13 as stated: for every non-empty list of views and every class of the
\* table, each returned dimension is exactly sum(dim_i * confidence_i) /
\* sum(confidence_i).
C13_CombinedIsWeightedMean ==
  AllAnalysed /\ Len(imageElements) > 0 =>
    \A f \in Fields :
      LET n == Len(imageElements)
      IN estimate.result.dimensions[f].value * 100 * TotalWeight(ViewDimensions, n)
           = WeightedSum(ViewDimensions, n, f)

\* C13: for every non-empty list of views and every class of the table, each
\* returned dimension is the confidence-weighted mean sum(dim_i * confidence_i)
\* / sum(confidence_i) rounded to the nearest integer (halves upwards).
C13_CombinedIsRoundedWeightedMean ==
  AllAnalysed /\ Len(imageElements) > 0 =>
    \A f \in Fields :
      LET n == Len(imageElements)
          weight == 100 * TotalWeight(ViewDimensions, n)
          twice == 2 * WeightedSum(ViewDimensions, n, f)
          value == estimate.result.dimensions[f].value
      IN 2 * weight * value - weight <= twice /\ twice < 2 * weight * value + weight

\* Two views of different classes and different confidences, whose weighted
\* mean of the widths is not an integer.
C13_Witness ==
  /\ AllAnalysed /\ Len(imageElements) = 2
  /\ MainObject(1).class # MainObject(2).class
  /\ MainObject(1).score # MainObject(2).score
  /\ WeightedSum(ViewDimensions, 2, "width") % (100 * TotalWeight(ViewDimensions, 2)) # 0
  /\ estimate.result.dimensions.width
       = Num(MathRound(WeightedSum(ViewDimensions, 2, "width"),
                       100 * TotalWeight(ViewDimensions, 2)))


------------------------------------------------------------------------------
(* Claims about the mask *)

\* The run is on the 100 x 100 black raster with a white 40 x 40 square at
\* (30, 30), with threshold 0.2 and edge detection.
SquareScenario ==
  /\ pc = "bounded" /\ scene.side = 100
  /\ options.threshold = 2 /\ options.edgeDetection
  /\ \A p \in 0..9999 :
       LET inside == /\ p % 100 >= 30 /\ p % 100 < 70
                     /\ p \div 100 >= 30 /\ p \div 100 < 70
       IN \A c \in 0..2 : SceneImage(scene).data[4 * p + c] = IF inside THEN 255 ELSE 0

\* C12: removeBackground with threshold 0.2 and edge detection on the 100 x 100
\* black image with a white 40 x 40 square at (30, 30), followed by
\* getObjectBounds, gives a box whose width and height are within 2 of 40.
C12_SquareBoxWithinTwoPixels ==
  SquareScenario =>
    Abs(bounds.width - 40) <= 2 /\ Abs(bounds.height - 40) <= 2

\* The box found: the ring of edge pixels on both sides of the square's border.
C12_Witness ==
  /\ SquareScenario
  /\ bounds = [x |-> 29, y |-> 29, width |-> 41, height |-> 41]


------------------------------------------------------------------------------
(* Claims about analyzeDimensions *)

\* The bounding box of view k and the views whose box is not empty.
ViewBox(k) == getObjectBounds(views[k])
NonEmptyViews == {k \in 1..Len(views) : ViewBox(k).width > 0 /\ ViewBox(k).height > 0}

Analyzed == pc = "analyzed" /\ NonEmptyViews # {}

\* v is the second largest of the widths of the views in S, counted with
\* multiplicity.
IsSecondLargestWidth(v, S) ==
  \E j \in S :
    /\ \A k \in S : ViewBox(k).width <= ViewBox(j).width
    /\ v = Max({ViewBox(k).width : k \in S \ {j}})

\* C14 as stated: with at least one non-empty box, width and height are the
\* largest box width and height over all views, depth is the second-largest box
\* width when there are at least 2 views and 0.8 x width otherwise.
C14_DepthBySecondView ==
  Analyzed =>
    /\ dimensions.width = Max({ViewBox(k).width : k \in 1..Len(views)})
    /\ dimensions.height = Max({ViewBox(k).height : k \in 1..Len(views)})
    /\ IF Len(views) >= 2
       THEN IsSecondLargestWidth(dimensions.depth, 1..Len(views))
       ELSE 10 * dimensions.depth = 8 * dimensions.width

\* C14: with at least one non-empty box, width and height are the largest
\* width and height over the non-empty boxes, depth is the second-largest width
\* over the non-empty boxes when at least 2 boxes are non-empty, and 0.8 x width
\* rounded to the nearest integer otherwise.
C14_DepthBySecondNonEmptyBox ==
  Analyzed =>
    /\ dimensions.width = Max({ViewBox(k).width : k \in NonEmptyViews})
    /\ dimensions.height = Max({ViewBox(k).height : k \in NonEmptyViews})
    /\ IF Cardinality(NonEmptyViews) >= 2
       THEN IsSecondLargestWidth(dimensions.depth, NonEmptyViews)
       ELSE /\ 20 * dimensions.depth - 10 <= 16 * dimensions.width
            /\ 16 * dimensions.width < 20 * dimensions.depth + 10

\* Two non-empty boxes of different widths: the depth is the smaller width.
C14_Witness ==
  /\ Analyzed /\ Cardinality(NonEmptyViews) = 2
  /\ ViewBox(1).width # ViewBox(2).width
  /\ dimensions.depth = Min({ViewBox(1).width, ViewBox(2).width})

NonEmptyView(view) == getObjectBounds(view).width > 0 /\ getObjectBounds(view).height > 0

\* C15: whenever at least one view has a non-empty box, analyzeDimensions
\* returns what it returns on the non-empty views alone, three numbers and no
\* error; views whose box has width <= 0 or height <= 0 (the box of an
\* all-transparent mask included) do not count.
C15_EmptyViewsAreExcluded ==
  Analyzed =>
    /\ dimensions = analyzeDimensions(SelectSeq(views, NonEmptyView))
    /\ DOMAIN dimensions = {"width", "height", "depth"}
    /\ \A f \in DOMAIN dimensions : dimensions[f] \in Nat

\* An all-transparent view next to a view with a non-empty box.
C15_Witness ==
  /\ Analyzed
  /\ \E k \in 1..Len(views) : AllTransparent(views[k])
  /\ dimensions = analyzeDimensions(SelectSeq(views, NonEmptyView))


------------------------------------------------------------------------------
(* Claims about the edge-aware mask *)

EdgeMasked == Returned("removeBackground") /\ options.edgeDetection

\* The edge intensity sqrt(edges[p]) / 1448 of pixel p is below the threshold.
BelowThreshold(p) ==
  100 * edges[p] < (EdgeNorm * options.threshold) * (EdgeNorm * options.threshold)

Pixels == 0..(imageData.width * imageData.height - 1)

\* C16: in edge-aware mode removeBackground sets the alpha of every pixel
\* whose edge intensity is below the threshold to 0 and leaves the alpha of
\* every pixel whose edge intensity is at least the threshold as in the input.
C16_AlphaFollowsEdgeIntensity ==
  EdgeMasked =>
    \A p \in Pixels :
      masked.data[4 * p + 3] = IF BelowThreshold(p) THEN 0 ELSE imageData.data[4 * p + 3]

\* A raster with varied alphas: a translucent pixel below the threshold is
\* cleared, a translucent pixel at or above the threshold keeps its alpha.
C16_Witness ==
  /\ EdgeMasked
  /\ \E p \in Pixels :
       /\ BelowThreshold(p) /\ imageData.data[4 * p + 3] \in 1..254
       /\ masked.data[4 * p + 3] = 0
  /\ \E p \in Pixels :
       /\ ~BelowThreshold(p) /\ imageData.data[4 * p + 3] \in 1..254
       /\ masked.data[4 * p + 3] = imageData.data[4 * p + 3]


------------------------------------------------------------------------------
(* Claims about generatePointCloud *)

Generated == pc = "generated"

\* C17: generatePointCloud takes the fallback strategy exactly when the number
\* of surface points is below half of the point count (below 2500 of 5000), and
\* the surface-biased strategy otherwise.
C17_FallbackBelowHalf ==
  Generated =>
    /\ strategy \in {"fallback", "surface"}
    /\ strategy = "fallback" <=> 2 * Len(surfacePoints) < pointCount

\* A call with surface points, fewer than half of the point count, that took
\* the fallback strategy.
C17_Witness ==
  /\ Generated /\ Len(surfacePoints) > 0 /\ 2 * Len(surfacePoints) < pointCount
  /\ strategy = "fallback"


\* C18: generatePointCloud leaves its arguments as they were: after the call
\* every image object passed in, the presence of its features field included,
\* and the dimensions object are unchanged.
C18_ArgumentsUnchanged ==
  [][pc = "images" /\ pc' = "generated" => images' = images /\ dimensions' = dimensions]_vars


\* The feature points pooled by the latest call: the features of every image
\* object, as the call left them on the objects.
PooledFeatures == ConcatFeatures(images, Len(images))

\* C20: every feature point that generatePointCloud pools from the views and
\* passes to createDensityGrid and createFeatureDensity has its x and y within
\* [0, 1].
C20_PooledFeaturesNormalized ==
  Generated =>
    \A k \in 1..Len(PooledFeatures) :
      /\ 0 <= PooledFeatures[k][1] /\ PooledFeatures[k][1] <= FixedOne
      /\ 0 <= PooledFeatures[k][2] /\ PooledFeatures[k][2] <= FixedOne


------------------------------------------------------------------------------
(* Claims about the sampling helpers *)

AllZeroWeights == \A i \in DOMAIN weightArray : weightArray[i] = 0

AllZeroGrid ==
  \A x \in DOMAIN densityGrid : \A y \in DOMAIN densityGrid[x] :
    \A z \in DOMAIN densityGrid[x][y] : densityGrid[x][y][z] = 0

\* C19: on an all-zero array normalizeArray returns a uniform array of finite
\* values and weightedRandomIndex an index between 0 and length - 1; on an
\* all-zero grid sampleFromDensityGrid returns three finite coordinates.
C19_SamplersTotalOnZeroInput ==
  /\ "normalized" \in DOMAIN sampled /\ AllZeroWeights =>
       /\ DOMAIN sampled.normalized = DOMAIN weightArray
       /\ \A i \in DOMAIN weightArray :
            sampled.normalized[i] \in Int /\ sampled.normalized[i] = sampled.normalized[0]
  /\ "index" \in DOMAIN sampled /\ AllZeroWeights =>
       sampled.index \in 0..(Cardinality(DOMAIN weightArray) - 1)
  /\ "point" \in DOMAIN sampled /\ AllZeroGrid =>
       sampled.point \in Int \X Int \X Int

\* The three helpers have run on an all-zero array of more than one entry and
\* an all-zero grid.
C19_Witness ==
  /\ pc = "sampled" /\ AllZeroWeights /\ AllZeroGrid
  /\ Cardinality(DOMAIN weightArray) > 1
  /\ sampled.normalized = [i \in DOMAIN weightArray |-> FixedOne \div 10]
  /\ sampled.index \in 0..(Cardinality(DOMAIN weightArray) - 1)
  /\ sampled.point \in Int \X Int \X Int


------------------------------------------------------------------------------
(* Claims about the feature-guided fallback *)

FellBack == Generated /\ strategy = "fallback"

\* Draw k of the eight draws of point i: 0 the surface distribution, 1..3 the
\* bins, 4 the clustering, 5..7 the offsets.
PointDraw(i, k) == Draw(randomTape, 8 * i + k)

\* sigmoid(4 * draw - 2) > 0.7 from draw 0.72 on: the points below are written
\* once and not pulled.
NotPulled(i) == PointDraw(i, 0) <= 71

AxisDimension(axis) ==
  CASE axis = 0 -> dimensions.width [] axis = 1 -> dimensions.height [] axis = 2 -> dimensions.depth

\* The offset of point i inside its bin along the axis, recovered from the
\* buffer: the fractional part of (coordinate / dimension + 0.5) * gridSize.
BinOffset(i, axis) ==
  (((cloud[3 * i + axis] \div AxisDimension(axis)) + FixedOne \div 2) * gridSize) % FixedOne

\* draw * jitter, to the resolution of BinOffset (1/500 of a bin).
Jitter(draw, tenths) == (((draw * tenths * FixedOne) \div 1000) \div gridSize) * gridSize

PointIndices == 0..(pointCount - 1)

TightlyClustered(i) == \A axis \in 0..2 : BinOffset(i, axis) < (2 * FixedOne) \div 10

\* C22 as stated: the clustering draw selects the tight 0.2 jitter on 70% of
\* its range (the lower or the upper 70%) and the full jitter on the other 30%.
C22_TightOnSeventyPercent ==
  FellBack =>
    \/ \A i \in PointIndices : NotPulled(i) /\ PointDraw(i, 4) <= 70 => TightlyClustered(i)
    \/ \A i \in PointIndices : NotPulled(i) /\ PointDraw(i, 4) >= 30 => TightlyClustered(i)

\* C22: the clustering draw selects the tight 0.2 jitter when it is above 0.7
\* (30% of its range) and the full 1.0 jitter otherwise (70%): each axis
\* offset is its own draw times 0.2, in [0, 0.2), or times 1.0, in [0, 1.0).
C22_TightOnThirtyPercent ==
  FellBack =>
    \A i \in PointIndices : NotPulled(i) =>
      \A axis \in 0..2 :
        BinOffset(i, axis)
          = Jitter(PointDraw(i, 5 + axis), IF PointDraw(i, 4) > 70 THEN 2 ELSE 10)

\* A point clustered tightly although one of its offset draws is above 0.2,
\* and a point with the full jitter and an offset of at least 0.2.
C22_Witness ==
  /\ FellBack
  /\ \E i \in PointIndices :
       /\ NotPulled(i) /\ PointDraw(i, 4) > 70 /\ TightlyClustered(i)
       /\ \E axis \in 0..2 : PointDraw(i, 5 + axis) >= 20
  /\ \E i \in PointIndices :
       /\ NotPulled(i) /\ PointDraw(i, 4) <= 70 /\ ~TightlyClustered(i)


------------------------------------------------------------------------------
(* Claims about pullPointToSurface *)

Pulled == pc = "pulled"

HalfExtent(axis) == (AxisDimension(axis) * FixedOne) \div 2

\* Coordinate `axis` of the pulled point before and after the call.
Before(axis) == sampled.before[3 * sampled.index + axis]
After(axis) == cloud[3 * sampled.index + axis]

\* |Before(a) / half extent of a| >= |Before(b) / half extent of b|, the halves
\* cancelled.
AtLeastAsFar(a, b) == Abs(Before(a)) * AxisDimension(b) >= Abs(Before(b)) * AxisDimension(a)

\* The coordinate moved 0.7 of the way to the nearest face: the normalised n
\* becomes n + 0.7 * (sign(n) - n), to the last digit.
PulledAlong(a) ==
  Abs(10 * (After(a) - Before(a)) - 7 * (Sign(Before(a)) * HalfExtent(a) - Before(a))) < 10

\* C23: pullPointToSurface moves the point along one axis only, an axis of
\* largest normalised magnitude |position / half extent|, 70% of the remaining
\* distance to the nearest face on that axis; the point's other two
\* coordinates and all other points of the buffer are unchanged.
C23_PulledAlongDominantAxis ==
  Pulled =>
    /\ \E a \in 0..2 :
         /\ \A b \in 0..2 : AtLeastAsFar(a, b)
         /\ PulledAlong(a)
         /\ \A b \in 0..2 \ {a} : After(b) = Before(b)
    /\ \A k \in DOMAIN cloud :
         k \div 3 # sampled.index => cloud[k] = sampled.before[k]

\* A point whose dominant axis is y alone: y moved, x, z and the other point
\* are as before.
C23_Witness ==
  /\ Pulled
  /\ \A b \in {0, 2} : ~AtLeastAsFar(b, 1)
  /\ After(1) # Before(1) /\ PulledAlong(1)
  /\ After(0) = Before(0) /\ After(2) = Before(2)
  /\ \A k \in DOMAIN cloud : k \div 3 # sampled.index => cloud[k] = sampled.before[k]

------------------------------------------------------------------------------
(* C24: the cells extractSurfacePoints emits *)

SurfaceExtracted == pc = "done" /\ densityGrid # None /\ surfacePoints # None

InteriorCell(x, y, z) ==
  LET Inside(i) == 1 <= i /\ i <= gridSize - 2
  IN Inside(x) /\ Inside(y) /\ Inside(z)

\* Density above 0.2 and central-difference gradient magnitude above 0.05:
\* sqrt((a/2)^2 + (b/2)^2 + (c/2)^2) > 0.05 iff a^2 + b^2 + c^2 > 0.1^2.
DenseAndSteep(x, y, z) ==
  LET tenth == FixedOne \div 10
      a == Abs(densityGrid[x + 1][y][z] - densityGrid[x - 1][y][z])
      b == Abs(densityGrid[x][y + 1][z] - densityGrid[x][y - 1][z])
      c == Abs(densityGrid[x][y][z + 1] - densityGrid[x][y][z - 1])
  IN /\ 5 * densityGrid[x][y][z] > FixedOne
     /\ \/ a > tenth \/ b > tenth \/ c > tenth
        \/ a * a + b * b + c * c > tenth * tenth

\* ((x/N - 0.5) * width, (y/N - 0.5) * height, (z/N - 0.5) * depth).
CellPoint(x, y, z) ==
  << ((x * FixedOne) \div gridSize - FixedOne \div 2) * PipelineDimensions.width,
     ((y * FixedOne) \div gridSize - FixedOne \div 2) * PipelineDimensions.height,
     ((z * FixedOne) \div gridSize - FixedOne \div 2) * PipelineDimensions.depth >>

GridCells == (0..(gridSize - 1)) \X (0..(gridSize - 1)) \X (0..(gridSize - 1))

EmittedPoints == {surfacePoints[k] : k \in 1..Len(surfacePoints)}

\* C24: extractSurfacePoints emits the point of a grid cell exactly when the
\* cell is interior (every index in 1..N-2), its density is above 0.2 and its
\* central-difference gradient magnitude is above 0.05; the point is
\* ((x/N - 0.5) * width, (y/N - 0.5) * height, (z/N - 0.5) * depth); nothing
\* else is emitted and no cell is emitted twice.
C24_EmitsExactlySurfaceCells ==
  SurfaceExtracted =>
    /\ \A c \in GridCells :
          CellPoint(c[1], c[2], c[3]) \in EmittedPoints
            <=> (InteriorCell(c[1], c[2], c[3]) /\ DenseAndSteep(c[1], c[2], c[3]))
    /\ EmittedPoints \subseteq {CellPoint(c[1], c[2], c[3]) : c \in GridCells}
    /\ Cardinality(EmittedPoints) = Len(surfacePoints)

\* Some cells are emitted, and some interior cell above the density threshold
\* is not, its gradient being too flat.
C24_Witness ==
  /\ SurfaceExtracted
  /\ Len(surfacePoints) > 1
  /\ \E c \in GridCells :
        /\ InteriorCell(c[1], c[2], c[3])
        /\ 5 * densityGrid[c[1]][c[2]][c[3]] > FixedOne
        /\ CellPoint(c[1], c[2], c[3]) \notin EmittedPoints

------------------------------------------------------------------------------
(* C25: the grid between the splatting and the smoothing *)

Splatted == splatGrid # None

\* c * exp(-0.5 * d) for the feature's confidence c as given, when the cell is
\* at an offset within [-2, 2] on each axis from (ix, iy, floor(N / 2)).
Contribution(feature, x, y, z) ==
  LET dx == x - GridIndex(feature[1], gridSize)
      dy == y - GridIndex(feature[2], gridSize)
      dz == z - gridSize \div 2
  IN IF Abs(dx) <= 2 /\ Abs(dy) <= 2 /\ Abs(dz) <= 2
     THEN (ConfidenceValue(feature[3]) * Falloff[dx * dx + dy * dy + dz * dz]) \div FixedOne
     ELSE 0

RECURSIVE ContributionSum(_, _, _, _)
ContributionSum(k, x, y, z) ==
  IF k = 0 THEN 0
  ELSE ContributionSum(k - 1, x, y, z) + Contribution(features[k], x, y, z)

\* C25: before the smoothing every cell of createDensityGrid's grid equals the
\* sum, over every feature point with confidence c in [0, 1] (c = 0 included),
\* of c * exp(-0.5 * d) when the cell is at an offset within [-2, 2]^3 from
\* (ix, iy, floor(N / 2)), d being the Euclidean length of the offset; a
\* feature adds nothing to any other cell.
C25_SplatIsConfidenceWeightedSum ==
  Splatted =>
    \A c \in GridCells :
      splatGrid[c[1]][c[2]][c[3]] = ContributionSum(Len(features), c[1], c[2], c[3])

\* The same sum when no feature has confidence 0.
C25_SplatOfPositiveConfidences ==
  (Splatted /\ \A k \in 1..Len(features) : features[k][3] # 0) =>
    \A c \in GridCells :
      splatGrid[c[1]][c[2]][c[3]] = ContributionSum(Len(features), c[1], c[2], c[3])

------------------------------------------------------------------------------
(* C26: the smoothing pass of applyVolumetricConstraints *)

Smoothed == splatGrid # None /\ densityGrid # None

\* The sum of the pre-smoothing values of the cells at offsets k \div 9 - 1,
\* (k \div 3) % 3 - 1 and k % 3 - 1 from (x, y, z), for the offsets below n.
RECURSIVE SumBefore(_, _, _, _)
SumBefore(n, x, y, z) ==
  IF n = 0 THEN 0
  ELSE LET k == n - 1
       IN SumBefore(k, x, y, z)
          + splatGrid[x + (k \div 9) - 1][y + ((k \div 3) % 3) - 1][z + (k % 3) - 1]

\* C26: applyVolumetricConstraints performs one smoothing pass: every interior
\* cell becomes 0.7 * v + 0.3 * (the mean of the 27 cells of its 3x3x3
\* neighbourhood, itself included), all taken before the smoothing; every
\* boundary cell keeps its value.
C26_OneSmoothingPass ==
  Smoothed =>
    \A c \in GridCells :
      densityGrid[c[1]][c[2]][c[3]] =
        IF InteriorCell(c[1], c[2], c[3])
        THEN (7 * splatGrid[c[1]][c[2]][c[3]]) \div 10
             + (3 * (SumBefore(27, c[1], c[2], c[3]) \div 27)) \div 10
        ELSE splatGrid[c[1]][c[2]][c[3]]

\* The pass lowered an interior cell, raised another, and kept a boundary cell
\* that holds density.
C26_Witness ==
  /\ Smoothed
  /\ \E c \in GridCells :
        /\ InteriorCell(c[1], c[2], c[3])
        /\ densityGrid[c[1]][c[2]][c[3]] < splatGrid[c[1]][c[2]][c[3]]
  /\ \E c \in GridCells :
        /\ InteriorCell(c[1], c[2], c[3])
        /\ densityGrid[c[1]][c[2]][c[3]] > splatGrid[c[1]][c[2]][c[3]]
  /\ \E c \in GridCells :
        /\ ~InteriorCell(c[1], c[2], c[3])
        /\ densityGrid[c[1]][c[2]][c[3]] > 0

------------------------------------------------------------------------------
(* C27: the pixels extractFeaturePoints reports *)

FeaturesExtracted == pc = "createDensityGrid" /\ masked # None

\* The edge intensities extractFeaturePoints computes for its raster.
FeatureEdges == Only({detectEdges(raster) : raster \in {masked}})

ScanStride == Max({1, (masked.width * masked.height) \div (10 * options.maxPoints)})

OnStrideGrid(v, limit) ==
  /\ 5 <= v /\ v < limit - 5
  /\ (v - 5) % ScanStride = 0

\* Some pixel of the 11x11 window centred on (x, y) has a strictly greater
\* intensity than (x, y); some other pixel of it has the same intensity.
GreaterInWindow(edgeMap, x, y) ==
  \E dy \in -5..5 : \E dx \in -5..5 :
    edgeMap[(y + dy) * masked.width + (x + dx)] > edgeMap[y * masked.width + x]

EqualInWindow(edgeMap, x, y) ==
  \E dy \in -5..5 : \E dx \in -5..5 :
    /\ ~(dx = 0 /\ dy = 0)
    /\ edgeMap[(y + dy) * masked.width + (x + dx)] = edgeMap[y * masked.width + x]

Reportable(edgeMap, x, y) ==
  /\ OnStrideGrid(x, masked.width)
  /\ OnStrideGrid(y, masked.height)
  /\ 100 * edgeMap[y * masked.width + x] > EdgeNorm * EdgeNorm
  /\ ~GreaterInWindow(edgeMap, x, y)

RasterPixels == (0..(masked.width - 1)) \X (0..(masked.height - 1))

ReportedPixels ==
  {<<features[k][1] \div FixedOne, features[k][2] \div FixedOne>> : k \in 1..Len(features)}

\* C27: up to the truncation to maxPoints, extractFeaturePoints reports pixel
\* (x, y) exactly when it lies on the stride grid with 5 <= x < width - 5 and
\* 5 <= y < height - 5, its edge intensity is above 0.1 and no pixel of the
\* 11x11 window centred on it has a strictly greater edge intensity.  Every
\* reported pixel is such a pixel, reported once with its edge intensity, and
\* all of them are reported unless maxPoints cuts the list.
C27_ReportsStrideGridLocalMaxima ==
  FeaturesExtracted =>
    LET edgeMap == FeatureEdges
        reportable == {p \in RasterPixels : Reportable(edgeMap, p[1], p[2])}
    IN /\ ReportedPixels \subseteq reportable
       /\ Cardinality(ReportedPixels) = Len(features)
       /\ Len(features) = Min({Cardinality(reportable), options.maxPoints})
       /\ \A k \in 1..Len(features) :
            /\ features[k][1] % FixedOne = 0 /\ features[k][2] % FixedOne = 0
            /\ features[k][3] =
                 edgeMap[(features[k][2] \div FixedOne) * masked.width
                         + features[k][1] \div FixedOne]

\* Nothing was cut; a reported pixel has an equal neighbour in its window, and
\* pixels above the threshold went unreported: one inside the border, one off
\* the stride grid.
C27_Witness ==
  /\ FeaturesExtracted
  /\ Len(features) > 0 /\ Len(features) < options.maxPoints
  /\ ScanStride > 1
  /\ \E p \in ReportedPixels : EqualInWindow(FeatureEdges, p[1], p[2])
  /\ \E p \in RasterPixels \ ReportedPixels :
        /\ 100 * FeatureEdges[p[2] * masked.width + p[1]] > EdgeNorm * EdgeNorm
        /\ ~OnStrideGrid(p[1], masked.width) \/ ~OnStrideGrid(p[2], masked.height)

------------------------------------------------------------------------------
(* C28: the surface-biased branch of generatePointCloud *)

\* The z coordinates of the cells of the seven layers around floor(N / 2).
MiddleLayers ==
  {((z * FixedOne) \div gridSize - FixedOne \div 2) * dimensions.depth :
     z \in (gridSize \div 2 - 3)..(gridSize \div 2 + 3)}

\* C28: for N = 20 and K = 5000 the surface-biased branch is never taken:
\* extractSurfacePoints returns points of the seven layers around the middle
\* of the grid only, at most 7 * (N - 2)^2 = 2268 of them, which does not
\* exceed K / 2 = 2500, and every call takes the fallback.
C28_SurfaceBranchUnreachable ==
  Generated =>
    /\ \A k \in 1..Len(surfacePoints) : surfacePoints[k][3] \in MiddleLayers
    /\ Len(surfacePoints) <= 7 * (gridSize - 2) * (gridSize - 2)
    /\ 2 * 7 * (gridSize - 2) * (gridSize - 2) <= pointCount
    /\ strategy = "fallback"

\* A call whose surface points reach the outermost of the seven layers.
C28_Witness ==
  /\ Generated /\ strategy = "fallback"
  /\ \E k \in 1..Len(surfacePoints) :
        surfacePoints[k][3] =
          (((gridSize \div 2 + 3) * FixedOne) \div gridSize - FixedOne \div 2) * dimensions.depth

------------------------------------------------------------------------------
(* C29: the points of generatePointCloud and the box of the dimensions *)

\* The coordinates of the points along an axis, and the interval
\* [-dimension / 2, dimension / 2] (a coordinate is a fixed-point fraction
\* times the dimension in mm).
AxisCoordinates(axis) == {cloud[3 * i + axis] : i \in PointIndices}

BoxInterval(axis) ==
  (0 - (FixedOne * AxisDimension(axis)) \div 2)..((FixedOne * AxisDimension(axis)) \div 2)

\* The coordinate lies in the outermost tenth of the half extent.
NearFace(i, axis) ==
  20 * Abs(cloud[3 * i + axis]) >= 9 * FixedOne * AxisDimension(axis)

\* C29: for positive dimensions every point written by generatePointCloud lies
\* inside the box |x| <= width / 2, |y| <= height / 2, |z| <= depth / 2, the
\* points corrected by pullPointToSurface included.
C29_PointsInsideBox ==
  (Generated /\ \A axis \in 0..2 : AxisDimension(axis) > 0) =>
    \A axis \in 0..2 : AxisCoordinates(axis) \subseteq BoxInterval(axis)

\* A call that pulled a point to the outermost tenth of the box and left
\* another point, in the inner half of the box on some axis, where it was drawn.
C29_Witness ==
  /\ FellBack
  /\ \E i \in PointIndices : ~NotPulled(i) /\ \E axis \in 0..2 : NearFace(i, axis)
  /\ \E i \in PointIndices :
        /\ NotPulled(i)
        /\ \E axis \in 0..2 : 4 * Abs(cloud[3 * i + axis]) < FixedOne * AxisDimension(axis)

------------------------------------------------------------------------------
(* C30: the layers of the grid that stay empty *)

\* The distance of layer z from the middle layer floor(N / 2).
LayerDistance(z) == Abs(z - gridSize \div 2)

\* C30: after createDensityGrid every cell whose z index differs from
\* floor(N / 2) by more than 3 is exactly 0, whatever the features; between
\* the splatting and the smoothing the same holds of every cell whose z index
\* differs by more than 2.
C30_OuterLayersEmpty ==
  Smoothed =>
    \A c \in GridCells :
      /\ LayerDistance(c[3]) > 3 => densityGrid[c[1]][c[2]][c[3]] = 0
      /\ LayerDistance(c[3]) > 2 => splatGrid[c[1]][c[2]][c[3]] = 0

\* The splat reached a layer at distance 2 and the smoothing carried density
\* into a layer at distance 3, on both sides of the middle.
C30_Witness ==
  /\ Smoothed
  /\ \A side \in {0 - 1, 1} :
        \E x \in 0..(gridSize - 1) : \E y \in 0..(gridSize - 1) :
          /\ splatGrid[x][y][gridSize \div 2 + 2 * side] > 0
          /\ splatGrid[x][y][gridSize \div 2 + 3 * side] = 0
          /\ densityGrid[x][y][gridSize \div 2 + 3 * side] > 0

====
